---- MODULE Spec2Model ----
(***************************************************************************)
(* Note & harmony extraction of the midi transcription repository.         *)
(*                                                                         *)
(*   pitch_detect_advanced.py     quantize_to_grid,                        *)
(*                                detect_midi_notes_advanced (monophonic)  *)
(*   polyphonic_transcription.py  detect_polyphonic_notes                  *)
(*   key_chord_detection.py       detect_chord_progression                 *)
(*                                                                         *)
(* Times are rationals in the source.  Here a time is an integer number of *)
(* "fine units": one tick is the frame hop (hop_length / sr seconds) and a *)
(* tick is divided in `den` fine units, chosen so that the subdivision     *)
(* duration of the beat grid, mean(diff(beat_times)) / 4, is an integer.   *)
(* Floating-point rounding error is not modelled.                          *)
(***************************************************************************)
EXTENDS Integers, Sequences, FiniteSets, TLC

VARIABLES
    m_pc,               \* position in detect_midi_notes_advanced
    quantize,           \* parameter quantize (cleared when tempo detection fails)
    tempo_analysis,     \* parameter tempo_analysis
    beats_detected,     \* beat_times is not None
    tempo_failed,       \* the except branch of the tempo block was taken (history)
    beat_times,         \* the beat times (fine units) when beats_detected
    den,                \* fine units per tick
    min_note_duration,  \* parameter min_note_duration (ticks)
    n_frames,           \* pitches.shape[1]
    frame_voiced,       \* per frame: does the raw frame carry a pitch (history)
    detected_pitches,   \* first pass output
    pitch_confidences,  \* first pass output
    i,                  \* second pass loop index (0-based)
    current_note,
    note_start,
    note_confidences,
    notes,              \* notes as appended, then sorted
    cleaned_notes,      \* returned sequence
    raw_notes,          \* (note_start, duration, pitch) of each appended note (history)
    p_pc,               \* position in detect_polyphonic_notes
    midi_pitches,       \* parameter midi_pitches: [lo, hi], the pitches lo..hi
    max_polyphony,      \* parameter max_polyphony
    min_duration,       \* parameter min_duration (ticks)
    p_n_frames,         \* salience.shape[1]
    frame_idx,          \* frame loop index (0-based)
    active_notes,       \* pitch -> [start, frames], for the keys of the dict
    active_keys,        \* the keys of active_notes in insertion order
    detected_notes,     \* notes as appended, then sorted
    peaks_history,      \* per frame: current_pitches (history)
    salience_silent,    \* every salience column so far was all zero (history)
    peaks_dropped,      \* some frame had more peaks than max_polyphony (history)
    c_pc,               \* position in detect_chord_progression
    c_n_frames,         \* chroma.shape[1]
    segment_frames,     \* int(segment_time * sr / hop_length)
    seg_start,          \* segment loop index i (0-based frame)
    chord_progression,  \* (times[i], chord_name, confidence) per labelled segment
    smoothed_progression, \* returned sequence
    segment_chromas,    \* per segment: its mean chroma (history)
    q_pc,               \* position in the double quantization of one time
    q_beats,            \* beat_times (fine units)
    q_time,             \* the time to quantize (fine units)
    q_once,             \* quantize_to_grid(q_time, q_beats)
    q_twice,            \* quantize_to_grid(q_once, q_beats)
    k_pc,               \* position in detect_key_krumhansl
    chroma_vector,      \* parameter chroma_vector: pitch class 0..11 -> energy
    shift,              \* loop variable shift
    correlations,       \* (key, mode, correlation) per tested key
    best_match,         \* returned tuple
    d_pc,               \* position in a call of detect_chord
    chroma_frame,       \* parameter chroma_frame: pitch class 0..11 -> energy
    chord_match,        \* returned tuple
    rt_main,            \* position of the main thread in start() / stop()
    rt_reader,          \* position of audio_reader_thread
    rt_proc,            \* position of processing_thread_func
    transcription_mode, \* 'monophonic' or 'polyphonic'
    is_running,         \* self.is_running
    stream,             \* self.stream: "none", "open" or "closed"
    audio_queue,        \* number of chunks in self.audio_queue
    audio_buffer,       \* number of chunks in self.audio_buffer
    result_queue,       \* the kinds of the results in self.result_queue
    stopped_in_flight,  \* an analysis was in flight when stop() cleared the flag (history)
    put_after_flag,     \* a result was put after stop() cleared the flag (history)
    put_after_return,   \* a result was put after stop() returned (history)
    w_pc,               \* "idle", "called" or "done": the call of a writer
    writer,             \* the writer that is called
    w_notes,            \* its argument notes (chord_progression for create_chord_midi)
    instrument_notes,   \* the notes of the instrument handed to pm.write
    percussion_notes,   \* the number of notes of the percussion track written
    file_written,       \* pm.write(output_path) was reached
    w_error,            \* the exception the call ended with, or "none"
    sig_pc,             \* position in detect_key_signature
    sig_chroma,         \* chroma: the frames, each pitch class 0..11 -> energy
    window_size,        \* int(5 * sr / hop_length)
    win_start,          \* window loop index i (0-based frame)
    windowed_keys,      \* (win_key, win_mode) per window
    global_key,         \* detect_key_krumhansl(mean_chroma)
    consistency,        \* the consistency of the result, as a fraction
    h_pc,               \* "idle", "called" or "done": the call of analyze_harmonic_structure
    h_key,              \* key_info['key']
    h_progression,      \* chord_progression: the segments of detect_chord_progression
    tonal_stability,    \* the tonal_stability of the result, as a fraction
    reader_pc,          \* position of audio_reader_thread: "none", "get" or "extend"
    proc_pc,            \* position of processing_thread_func
    captured,           \* the number of samples the stream has delivered
    queue_chunks,       \* the chunks in self.audio_queue, oldest first
    audio_chunk,        \* the chunk the reader holds
    buffer_samples,     \* the samples in self.audio_buffer, oldest first
    buffer_array,       \* the snapshot of the processing worker
    app_transcriber,    \* app.transcriber: the registered transcriber, 0 without the attribute
    created,            \* the number of RealtimeTranscriber objects created
    live,               \* the transcribers that were started and not stopped
    requests,           \* per handler slot: the request, its position and its answer
    raced,              \* the slots whose start requests passed the check together (history)
    mc_pc,              \* "idle" or "ready": the MIDIController exists
    pressed_notes,      \* self.active_notes: note -> velocity and channel
    control_values,     \* self.control_values
    pitch_bend,         \* self.pitch_bend
    current_program,    \* self.current_program
    event_queue,        \* the messages in self.event_queue, oldest first
    is_recording,       \* self.is_recording
    recorded_events,    \* the messages in self.recorded_events
    note_on_calls,      \* the number of calls of the note-on callback (history)
    note_off_calls      \* the number of calls of the note-off callback (history)

mono_vars == <<m_pc, quantize, tempo_analysis, beats_detected, tempo_failed, beat_times, den,
               min_note_duration,
               n_frames, frame_voiced, detected_pitches, pitch_confidences, i,
               current_note, note_start, note_confidences, notes, cleaned_notes,
               raw_notes>>

poly_vars == <<p_pc, midi_pitches, max_polyphony, min_duration, p_n_frames, frame_idx,
               active_notes, active_keys, detected_notes, peaks_history,
               salience_silent, peaks_dropped>>

chord_vars == <<c_pc, c_n_frames, segment_frames, seg_start, chord_progression,
                smoothed_progression, segment_chromas>>

quant_vars == <<q_pc, q_beats, q_time, q_once, q_twice>>

key_vars == <<k_pc, chroma_vector, shift, correlations, best_match>>

det_vars == <<d_pc, chroma_frame, chord_match>>

rt_vars == <<rt_main, rt_reader, rt_proc, transcription_mode, is_running, stream,
             audio_queue, audio_buffer, result_queue, stopped_in_flight,
             put_after_flag, put_after_return>>

w_vars == <<w_pc, writer, w_notes, instrument_notes, percussion_notes, file_written, w_error>>

sig_vars == <<sig_pc, sig_chroma, window_size, win_start, windowed_keys, global_key, consistency>>

h_vars == <<h_pc, h_key, h_progression, tonal_stability>>

buf_vars == <<reader_pc, proc_pc, captured, queue_chunks, audio_chunk, buffer_samples, buffer_array>>

app_vars == <<app_transcriber, created, live, requests, raced>>

mc_vars == <<mc_pc, pressed_notes, control_values, pitch_bend, current_program, event_queue, is_recording, recorded_events, note_on_calls, note_off_calls>>

vars == <<mono_vars, poly_vars, chord_vars, quant_vars, key_vars, det_vars, rt_vars, w_vars, sig_vars, h_vars, buf_vars, app_vars, mc_vars>>

mono_rest == <<poly_vars, chord_vars, quant_vars, key_vars, det_vars, rt_vars, w_vars, sig_vars, h_vars, buf_vars, app_vars, mc_vars>>

poly_rest == <<mono_vars, chord_vars, quant_vars, key_vars, det_vars, rt_vars, w_vars, sig_vars, h_vars, buf_vars, app_vars, mc_vars>>

chord_rest == <<mono_vars, poly_vars, quant_vars, key_vars, det_vars, rt_vars, w_vars, sig_vars, h_vars, buf_vars, app_vars, mc_vars>>

quant_rest == <<mono_vars, poly_vars, chord_vars, key_vars, det_vars, rt_vars, w_vars, sig_vars, h_vars, buf_vars, app_vars, mc_vars>>

key_rest == <<mono_vars, poly_vars, chord_vars, quant_vars, det_vars, rt_vars, w_vars, sig_vars, h_vars, buf_vars, app_vars, mc_vars>>

det_rest == <<mono_vars, poly_vars, chord_vars, quant_vars, key_vars, rt_vars, w_vars, sig_vars, h_vars, buf_vars, app_vars, mc_vars>>

rt_rest == <<mono_vars, poly_vars, chord_vars, quant_vars, key_vars, det_vars, w_vars, sig_vars, h_vars, buf_vars, app_vars, mc_vars>>

w_rest == <<mono_vars, poly_vars, chord_vars, quant_vars, key_vars, det_vars, rt_vars, sig_vars, h_vars, buf_vars, app_vars, mc_vars>>

sig_rest == <<mono_vars, poly_vars, chord_vars, quant_vars, key_vars, det_vars, rt_vars, w_vars, h_vars, buf_vars, app_vars, mc_vars>>

h_rest == <<mono_vars, poly_vars, chord_vars, quant_vars, key_vars, det_vars, rt_vars, w_vars, sig_vars, buf_vars, app_vars, mc_vars>>

buf_rest == <<mono_vars, poly_vars, chord_vars, quant_vars, key_vars, det_vars, rt_vars, w_vars, sig_vars, h_vars, app_vars, mc_vars>>

app_rest == <<mono_vars, poly_vars, chord_vars, quant_vars, key_vars, det_vars, rt_vars, w_vars, sig_vars, h_vars, buf_vars, mc_vars>>

mc_rest == <<mono_vars, poly_vars, chord_vars, quant_vars, key_vars, det_vars, rt_vars, w_vars, sig_vars, h_vars, buf_vars, app_vars>>

-----------------------------------------------------------------------------
(* Bounds of the model *)

MaxFrames == 4
MaxBeats == 3
MaxMinDuration == 2
MaxPolyFrames == 4
MaxChordFrames == 3
MaxTones == 2
MaxPolyphony == 2
MaxChromaFrames == 4
MaxSegmentFrames == 2
MaxBeatTick == 3
MaxChromaTones == 3
MaxChromaLevel == 2
MaxAudioQueue == 2
MaxAudioBuffer == 2
MaxResults == 2

MaxNotes == 2

MaxMessages == 3

MaxSessions == 3

chunk_size == 2

buffer_size == 3

MaxCaptured == 4

MaxHarmonicChords == 2

MaxSigFrames == 4

MaxWindowSize == 2

(* Program constants *)

None == -1
subdivisions == 4
mag_threshold == 10      \* 0.1, in hundredths
silence_threshold == 2   \* 0.02, in hundredths

peak_distance == 3       \* find_peaks(distance=3)
threshold_num == 3       \* threshold = 0.3 = threshold_num / threshold_den
threshold_den == 10
velocity_min == 20
velocity_max == 127

\* The defaults of the writers' parameters, times in hundredths of a second.
velocity == 100

filter_min_duration == 5

filter_max_duration == 200

min_note_length == 5

tempo == 120

time_signature == <<4, 4>>

smoothing_window == 5

dynamic_range == <<60, 100>>
chord_threshold_num == 3 \* detect_chord(threshold=0.6) = chord_threshold_num / chord_threshold_den
chord_threshold_den == 5

(* Input alphabets *)

SalienceValues == {0, 1, 4}         \* salience of one pitch in one frame
\* normalized salience is kept in units of 1 / NormScale: the largest
\* salience value, which every other value divides
NormScale == CHOOSE v \in SalienceValues : \A w \in SalienceValues : w <= v
PitchWindow == <<59, 64>>        \* midi_pitches of the polyphonic runs
ChordWindow == <<59, 67>>        \* midi_pitches wide enough for a triad
TriadPitches == {60, 63, 66}     \* the tones of the triad runs
VelocityWindow == <<59, 63>>     \* midi_pitches of the velocity runs
VelocityTones == {60, 63}        \* the tones of the velocity runs
VelocityLevels == SalienceValues \cup {2}   \* with a half-height level

RmsValues == {1, 2}              \* hundredths: below / at the silence threshold
MagValues == {5, 10, 30}         \* hundredths: below / at / above the magnitude threshold
MidiValues == {0, 60, 61, 62}    \* 0: the best bin has no positive frequency
BeatCandidates == {0, 3, 13}     \* ticks

\* Chroma vectors: at most MaxChromaTones of the pitch classes C, D#, E, G, A
\* sound, each at a level in 1..MaxChromaLevel; and every pitch class sounds
\* at one common level.
ChromaClasses == {0, 3, 4, 7, 9}

SparseChromas ==
    UNION {{[pc \in 0..11 |-> IF pc \in T THEN level[pc] ELSE 0] :
                level \in [T -> 1..MaxChromaLevel]} :
           T \in {S \in SUBSET ChromaClasses : Cardinality(S) <= MaxChromaTones}}

UniformChromas == {[pc \in 0..11 |-> v] : v \in 1..MaxChromaLevel}

Frames == [rms : RmsValues, mag : MagValues, midi : MidiValues]

-----------------------------------------------------------------------------
(* Helpers *)

Abs(x) == IF x < 0 THEN -x ELSE x

Max(a, b) == IF a >= b THEN a ELSE b

Last(s) == s[Len(s)]

\* Python round(): to the nearest integer, ties to the even one. d > 0.
RoundHalfEven(n, d) ==
    LET f == n \div d
        r == n % d
    IN  IF 2 * r < d THEN f
        ELSE IF 2 * r > d THEN f + 1
        ELSE IF f % 2 = 0 THEN f ELSE f + 1

\* np.argmin(np.abs(beat_times - time)): first index of the minimum.
NearestBeatIdx(time, bt) ==
    CHOOSE k \in 1..Len(bt) :
        /\ \A j \in 1..Len(bt) : Abs(bt[k] - time) <= Abs(bt[j] - time)
        /\ \A j \in 1..(k - 1) : Abs(bt[j] - time) > Abs(bt[k] - time)

\* Strictly increasing sequences over S of length 0..n.
IncreasingSeqs(S, n) ==
    {s \in UNION {[1..k -> S] : k \in 0..n} :
        \A j \in 1..(Len(s) - 1) : s[j] < s[j + 1]}

\* list.sort(key=lambda x: x[0]): stable insertion by start time.
RECURSIVE SortByStart(_)
SortByStart(s) ==
    IF Len(s) <= 1 THEN s
    ELSE LET rest == SortByStart(SubSeq(s, 1, Len(s) - 1))
             x == s[Len(s)]
             k == Cardinality({j \in 1..Len(rest) : rest[j].start <= x.start})
         IN  SubSeq(rest, 1, k) \o <<x>> \o SubSeq(rest, k + 1, Len(rest))

-----------------------------------------------------------------------------
(* pitch_detect_advanced.py *)

\* Fine units per tick for a beat sequence of raw tick times: with
\* n beats the subdivision duration (last - first) / ((n - 1) * 4) becomes
\* an integer number of fine units.
FineUnits(raw) == IF Len(raw) < 2 THEN 1 ELSE subdivisions * (Len(raw) - 1)

\* quantize_to_grid without the early return of lines 45-46: no grid, time 0.
quantize_to_grid_unguarded(time, bt) ==
    IF Len(bt) < 2 THEN 0
    ELSE LET beat_duration == (bt[Len(bt)] - bt[1]) \div (Len(bt) - 1)
             subdivision_duration == beat_duration \div subdivisions
             nearest_beat == bt[NearestBeatIdx(time, bt)]
             offset == time - nearest_beat
             subdivision_number == RoundHalfEven(offset, subdivision_duration)
         IN  Max(0, nearest_beat + subdivision_number * subdivision_duration)

\* quantize_to_grid without the max(0, .) of line 63.
quantize_to_grid_unclamped(time, bt) ==
    IF Len(bt) < 2 THEN time
    ELSE LET beat_duration == (bt[Len(bt)] - bt[1]) \div (Len(bt) - 1)
             subdivision_duration == beat_duration \div subdivisions
             nearest_beat == bt[NearestBeatIdx(time, bt)]
             offset == time - nearest_beat
             subdivision_number == RoundHalfEven(offset, subdivision_duration)
         IN  nearest_beat + subdivision_number * subdivision_duration


quantize_to_grid(time, bt) ==
    IF Len(bt) < 2 THEN time
    ELSE LET beat_duration == (bt[Len(bt)] - bt[1]) \div (Len(bt) - 1)
             subdivision_duration == beat_duration \div subdivisions
             nearest_beat == bt[NearestBeatIdx(time, bt)]
             offset == time - nearest_beat
             subdivision_number == RoundHalfEven(offset, subdivision_duration)
             quantized_time == nearest_beat + subdivision_number * subdivision_duration
         IN  Max(0, quantized_time)

\* times[k] for the 0-based frame index k.
times(k) == k * den

\* DetectPitch without the silence (RMS) check of lines 122-125.
DetectPitchNoSilenceCheck(f) ==
    IF f.mag < mag_threshold THEN None
    ELSE IF f.midi > 0 THEN f.midi
    ELSE None

\* First pass, one frame: the detected pitch (lines 121-145).
DetectPitch(f) ==
    IF f.rms < silence_threshold THEN None
    ELSE IF f.mag < mag_threshold THEN None
    ELSE IF f.midi > 0 THEN f.midi
    ELSE None

\* First pass, one frame: the confidence mag / mag_threshold, kept as its
\* numerator over the common denominator mag_threshold.
DetectConfidence(f) == IF DetectPitch(f) = None THEN 0 ELSE f.mag

\* The frame carries a pitch: it is loud enough on both measures and its
\* best bin has a positive frequency.
RawVoiced(f) ==
    /\ f.rms >= silence_threshold
    /\ f.mag >= mag_threshold
    /\ f.midi > 0

\* sorted(zip(pitch_values, confidence_values), key=lambda x: x[0])
RECURSIVE SortByPitch(_)
SortByPitch(s) ==
    IF Len(s) <= 1 THEN s
    ELSE LET rest == SortByPitch(SubSeq(s, 1, Len(s) - 1))
             x == s[Len(s)]
             k == Cardinality({j \in 1..Len(rest) : rest[j][1] <= x[1]})
         IN  SubSeq(rest, 1, k) \o <<x>> \o SubSeq(rest, k + 1, Len(rest))

RECURSIVE CumSum(_, _)
CumSum(s, k) == IF k = 0 THEN 0 ELSE CumSum(s, k - 1) + s[k][2]

\* Lines 165-180: the confidence-weighted median of the accumulated pairs.
WeightedMedianPitch(pairs, cur) ==
    IF pairs = <<>> THEN cur
    ELSE LET sorted_pairs == SortByPitch(pairs)
             total == CumSum(sorted_pairs, Len(sorted_pairs))
             \* np.searchsorted(cumsum, total / 2): first index whose
             \* cumulative sum is >= total / 2
             median_idx == CHOOSE k \in 1..Len(sorted_pairs) :
                 /\ 2 * CumSum(sorted_pairs, k) >= total
                 /\ \A j \in 1..(k - 1) : 2 * CumSum(sorted_pairs, j) < total
         IN  sorted_pairs[median_idx][1]

Note(s, d, p) == [start |-> s, duration |-> d, pitch |-> p]

\* EmitNote with the duration test written > instead of >=.
EmitNoteStrict(ns, duration, pitch) ==
    IF duration > min_note_duration * den
    THEN IF quantize /\ beats_detected
         THEN LET quantized_start == quantize_to_grid(ns, beat_times)
                  quantized_end == quantize_to_grid(ns + duration, beat_times)
              IN  <<Note(quantized_start, quantized_end - quantized_start, pitch)>>
         ELSE <<Note(ns, duration, pitch)>>
    ELSE <<>>

\* EmitNote without the duration test of lines 183 and 204.
EmitNoteAll(ns, duration, pitch) ==
    IF quantize /\ beats_detected
    THEN LET quantized_start == quantize_to_grid(ns, beat_times)
             quantized_end == quantize_to_grid(ns + duration, beat_times)
         IN  <<Note(quantized_start, quantized_end - quantized_start, pitch)>>
    ELSE <<Note(ns, duration, pitch)>>

\* Lines 182-191 and 203-211: the note appended for a closed span, if any.
EmitNote(ns, duration, pitch) ==
    IF duration >= min_note_duration * den
    THEN IF quantize /\ beats_detected
         THEN LET quantized_start == quantize_to_grid(ns, beat_times)
                  quantized_end == quantize_to_grid(ns + duration, beat_times)
              IN  <<Note(quantized_start, quantized_end - quantized_start, pitch)>>
         ELSE <<Note(ns, duration, pitch)>>
    ELSE <<>>

\* RemoveOverlaps without the trimming of the previous note.
RemoveOverlapsNoTrim(s) == s

\* Lines 182-183 and 202-203: the span (note_start, duration, pitch) of an
\* appended note before any quantization.
RawNote(ns, duration, pitch) ==
    IF duration >= min_note_duration * den THEN <<Note(ns, duration, pitch)>> ELSE <<>>

\* Lines 216-228: trim the previous note when the next starts before its end.
RECURSIVE RemoveOverlaps(_)
RemoveOverlaps(s) ==
    IF Len(s) <= 1 THEN s
    ELSE LET cleaned == RemoveOverlaps(SubSeq(s, 1, Len(s) - 1))
             prev == Last(cleaned)
             x == s[Len(s)]
             prev_end == prev.start + prev.duration
         IN  IF x.start < prev_end
             THEN SubSeq(cleaned, 1, Len(cleaned) - 1)
                  \o <<Note(prev.start, x.start - prev.start, prev.pitch)>> \o <<x>>
             ELSE Append(cleaned, x)

\* Lines 82-92: tempo and beat detection; a failure clears quantize.
MonoStart ==
    /\ m_pc = "start"
    /\ IF tempo_analysis
       THEN \E ok \in BOOLEAN :
              IF ok
              THEN \E raw \in IncreasingSeqs(BeatCandidates, MaxBeats) :
                     /\ beats_detected' = TRUE
                     /\ den' = FineUnits(raw)
                     /\ beat_times' = [k \in 1..Len(raw) |-> raw[k] * FineUnits(raw)]
                     /\ UNCHANGED <<quantize, tempo_failed>>
              ELSE \* the except branch: line 88 raised, or line 89 raised
                   \* after beat_times was assigned
                   /\ quantize' = FALSE
                   /\ tempo_failed' = TRUE
                   /\ \E assigned \in BOOLEAN :
                        IF assigned
                        THEN \E raw \in IncreasingSeqs(BeatCandidates, MaxBeats) :
                               /\ beats_detected' = TRUE
                               /\ den' = FineUnits(raw)
                               /\ beat_times' = [k \in 1..Len(raw) |-> raw[k] * FineUnits(raw)]
                        ELSE UNCHANGED <<beats_detected, beat_times, den>>
       ELSE UNCHANGED <<quantize, beats_detected, beat_times, den, tempo_failed>>
    /\ m_pc' = "run"
    /\ UNCHANGED <<tempo_analysis, min_note_duration, n_frames, frame_voiced,
                   detected_pitches, pitch_confidences, i, current_note, note_start,
                   note_confidences, notes, cleaned_notes, raw_notes>>
    /\ UNCHANGED mono_rest

\* Lines 118-145: one iteration of the first pass over an input frame.
FirstPassFrame ==
    /\ m_pc = "run"
    /\ Len(detected_pitches) < n_frames
    /\ \E f \in Frames :
         /\ detected_pitches' = Append(detected_pitches, DetectPitch(f))
         /\ pitch_confidences' = Append(pitch_confidences, DetectConfidence(f))
         /\ frame_voiced' = Append(frame_voiced, RawVoiced(f))
    /\ UNCHANGED <<m_pc, quantize, tempo_analysis, beats_detected, tempo_failed,
                   beat_times, den,
                   min_note_duration, n_frames, i, current_note, note_start,
                   note_confidences, notes, cleaned_notes, raw_notes>>
    /\ UNCHANGED mono_rest

\* should_continue with a tolerance of 2 semitones.
should_continue_wide(pitch) ==
    /\ current_note # None
    /\ pitch # None
    /\ Abs(pitch - current_note) <= 2

\* Lines 155-159: the frame continues the current note.
should_continue(pitch) ==
    /\ current_note # None
    /\ pitch # None
    /\ Abs(pitch - current_note) <= 1

\* Lines 153-199: one iteration of the second pass (frame index i, 0-based).
SecondPassFrame ==
    /\ m_pc = "run"
    /\ Len(detected_pitches) = n_frames
    /\ i < n_frames
    /\ LET pitch == detected_pitches[i + 1]
       IN  IF pitch # current_note /\ ~should_continue(pitch)
           THEN /\ notes' =
                     IF current_note # None /\ note_start # None
                     THEN notes \o EmitNote(note_start, times(i - 1) - note_start,
                                            WeightedMedianPitch(note_confidences,
                                                                current_note))
                     ELSE notes
                /\ raw_notes' =
                     IF current_note # None /\ note_start # None
                     THEN raw_notes \o RawNote(note_start, times(i - 1) - note_start,
                                               WeightedMedianPitch(note_confidences,
                                                                   current_note))
                     ELSE raw_notes
                /\ current_note' = pitch
                /\ note_start' = IF pitch # None THEN times(i) ELSE None
                /\ note_confidences' =
                     IF pitch # None THEN <<<<pitch, pitch_confidences[i + 1]>>>>
                     ELSE <<>>
           ELSE IF should_continue(pitch) /\ pitch # None
           THEN /\ note_confidences' =
                     Append(note_confidences, <<pitch, pitch_confidences[i + 1]>>)
                /\ UNCHANGED <<notes, raw_notes, current_note, note_start>>
           ELSE UNCHANGED <<notes, raw_notes, current_note, note_start, note_confidences>>
    /\ i' = i + 1
    /\ UNCHANGED <<m_pc, quantize, tempo_analysis, beats_detected, tempo_failed,
                   beat_times, den,
                   min_note_duration, n_frames, frame_voiced, detected_pitches,
                   pitch_confidences, cleaned_notes>>
    /\ UNCHANGED mono_rest

\* Lines 201-230: the last note, the sort by start time, the overlap pass.
MonoFinish ==
    /\ m_pc = "run"
    /\ Len(detected_pitches) = n_frames
    /\ i = n_frames
    /\ LET all_notes ==
               IF current_note # None /\ note_start # None
               THEN notes \o EmitNote(note_start, times(n_frames - 1) - note_start,
                                      current_note)
               ELSE notes
       IN  /\ notes' = SortByStart(all_notes)
           /\ cleaned_notes' = RemoveOverlaps(SortByStart(all_notes))
    /\ raw_notes' =
         IF current_note # None /\ note_start # None
         THEN raw_notes \o RawNote(note_start, times(n_frames - 1) - note_start,
                                   current_note)
         ELSE raw_notes
    /\ m_pc' = "done"
    /\ UNCHANGED <<quantize, tempo_analysis, beats_detected, tempo_failed,
                   beat_times, den,
                   min_note_duration, n_frames, frame_voiced, detected_pitches,
                   pitch_confidences, i, current_note, note_start, note_confidences>>
    /\ UNCHANGED mono_rest

MonoIdle ==
    /\ m_pc = "idle"
    /\ quantize = FALSE
    /\ tempo_analysis = FALSE
    /\ beats_detected = FALSE
    /\ tempo_failed = FALSE
    /\ beat_times = <<>>
    /\ den = 1
    /\ min_note_duration = 1
    /\ n_frames = 0
    /\ frame_voiced = <<>>
    /\ detected_pitches = <<>>
    /\ pitch_confidences = <<>>
    /\ i = 0
    /\ current_note = None
    /\ note_start = None
    /\ note_confidences = <<>>
    /\ notes = <<>>
    /\ cleaned_notes = <<>>
    /\ raw_notes = <<>>

\* The state at entry of detect_midi_notes_advanced, for given ranges of its
\* parameters.
MonoEntry(TempoChoices, QuantizeChoices, MinDurations, FrameCounts) ==
    /\ m_pc = "start"
    /\ tempo_analysis \in TempoChoices
    /\ quantize \in QuantizeChoices
    /\ min_note_duration \in MinDurations
    /\ n_frames \in FrameCounts
    /\ beats_detected = FALSE
    /\ tempo_failed = FALSE
    /\ beat_times = <<>>
    /\ den = 1
    /\ frame_voiced = <<>>
    /\ detected_pitches = <<>>
    /\ pitch_confidences = <<>>
    /\ i = 0
    /\ current_note = None
    /\ note_start = None
    /\ note_confidences = <<>>
    /\ notes = <<>>
    /\ cleaned_notes = <<>>
    /\ raw_notes = <<>>

-----------------------------------------------------------------------------
(* polyphonic_transcription.py *)

Pitches(mp) == mp[1]..mp[2]

\* The salience columns of the triad runs: each tone of the triad is silent,
\* soft or loud, every other pitch is silent.
TriadColumns ==
    {[p \in Pitches(ChordWindow) |-> IF p \in TriadPitches THEN level[p] ELSE 0] :
        level \in [TriadPitches -> SalienceValues]}

\* The salience columns offered to a frame: at most MaxTones pitches sound.
Columns(mp) ==
    UNION {{[p \in Pitches(mp) |-> IF p \in T THEN level[p] ELSE 0] :
                level \in [T -> SalienceValues \ {0}]} :
           T \in {S \in SUBSET Pitches(mp) : Cardinality(S) <= MaxTones}}

\* Lines 100-101: the frame maximum, 1 for an all-zero frame.
MaxSalience(c) ==
    LET m == CHOOSE v \in {c[p] : p \in DOMAIN c} : \A q \in DOMAIN c : c[q] <= v
    IN  IF m = 0 THEN 1 ELSE m

\* Line 102: the normalized salience of pitch p, in units of 1 / NormScale.
Normalized(c, p) == (c[p] * NormScale) \div MaxSalience(c)

\* The last pitch of the plateau that starts at pitch l.
RECURSIVE PlateauEnd(_, _, _)
PlateauEnd(c, l, hi) ==
    IF l < hi /\ c[l + 1] = c[l] THEN PlateauEnd(c, l + 1, hi) ELSE l

\* scipy.signal.find_peaks, local maxima: the midpoint of every plateau that
\* is strictly higher than both neighbours; the first and last sample are
\* never peaks.
LocalMaxima(c, mp) ==
    {(lr[1] + lr[2]) \div 2 :
        lr \in {x \in {<<l, PlateauEnd(c, l, mp[2])>> : l \in (mp[1] + 1)..(mp[2] - 1)} :
                  /\ c[x[1] - 1] < c[x[1]]
                  /\ x[2] < mp[2]
                  /\ c[x[2] + 1] < c[x[2]]}}

\* p ranks above q: higher, or as high and further right (the reversed
\* stable argsort).
RanksAbove(c, p, q) == c[p] > c[q] \/ (c[p] = c[q] /\ p >= q)

Highest(c, S) == CHOOSE p \in S : \A q \in S : RanksAbove(c, p, q)

\* find_peaks(distance=3): from the highest peak down, a kept peak removes
\* every peak closer than the distance.
RECURSIVE SelectByDistance(_, _)
SelectByDistance(c, S) ==
    IF S = {} THEN {}
    ELSE LET best == Highest(c, S)
         IN  {best} \cup SelectByDistance(c, {q \in S : Abs(q - best) >= peak_distance})

\* FindPeaks as plain thresholding against the raw frame maximum: no local
\* maximum is required and an all-zero frame is not guarded.
FindPeaksByThreshold(c, mp) ==
    LET raw_max == CHOOSE v \in {c[p] : p \in DOMAIN c} : \A q \in DOMAIN c : c[q] <= v
    IN  SelectByDistance(c,
            {p \in Pitches(mp) : threshold_den * c[p] >= threshold_num * raw_max})

\* FindPeaks without distance=3.
FindPeaksNoDistance(c, mp) ==
    LET HighEnough(mx) ==
            {p \in LocalMaxima(c, mp) : threshold_den * c[p] >= threshold_num * mx}
    IN  HighEnough(MaxSalience(c))

\* Lines 113-115: find_peaks(frame_salience, height=threshold, distance=3).
FindPeaks(c, mp) ==
    LET HighEnough(mx) ==
            {p \in LocalMaxima(c, mp) : threshold_den * c[p] >= threshold_num * mx}
    IN  SelectByDistance(c, HighEnough(MaxSalience(c)))

\* TopPeaks without the [:max_polyphony] cut.
TopPeaksAll(c, S, n) == S

\* Lines 118-123: the n highest peaks.
RECURSIVE TopPeaks(_, _, _)
TopPeaks(c, S, n) ==
    IF S = {} \/ n <= 0 THEN {}
    ELSE LET best == Highest(c, S)
         IN  {best} \cup TopPeaks(c, S \ {best}, n - 1)

\* The column sets of the two windows, computed once.
PitchColumns == Columns(PitchWindow)

\* The salience columns of the velocity runs: each of the two tones takes
\* any level, every other pitch is silent.
VelocityColumns ==
    {[p \in Pitches(VelocityWindow) |-> IF p \in VelocityTones THEN level[p] ELSE 0] :
        level \in [VelocityTones -> VelocityLevels]}

ColumnsOf(mp) ==
    IF mp = PitchWindow THEN PitchColumns
    ELSE IF mp = VelocityWindow THEN VelocityColumns
    ELSE TriadColumns

\* times[k] of detect_polyphonic_notes, in ticks.
ptimes(k) == k

\* Velocity from the summed salience, without the mean and without np.clip.
VelocityUnclipped(frames) ==
    LET RECURSIVE Sum(_)
        Sum(k) == IF k = 0 THEN 0 ELSE Sum(k - 1) + frames[k]
    IN  (Sum(Len(frames)) * velocity_max) \div NormScale

\* Lines 144-146 and 161-163: the velocity from the mean normalized salience.
Velocity(frames) ==
    LET RECURSIVE Sum(_)
        Sum(k) == IF k = 0 THEN 0 ELSE Sum(k - 1) + frames[k]
        scaled == (Sum(Len(frames)) * velocity_max) \div (NormScale * Len(frames))
    IN  IF scaled < velocity_min THEN velocity_min
        ELSE IF scaled > velocity_max THEN velocity_max
        ELSE scaled

PNote(s, d, p, v) == [start |-> s, duration |-> d, pitch |-> p, velocity |-> v]

NoNote == [start |-> None, frames |-> <<>>]

\* The entry of active_notes for a pitch (a defaultdict: absent keys read as
\* a fresh entry).
Entry(an, pitch) == IF pitch \in DOMAIN an THEN an[pitch] ELSE NoNote

\* UpdateEntry without the reset of line 151.
UpdateEntryNoReset(info, present, t, v) ==
    IF present
    THEN [start |-> IF info.start = None THEN t ELSE info.start,
          frames |-> Append(info.frames, v)]
    ELSE info

\* Lines 129-151: the new entry of one pitch after a frame at time t; v is
\* the normalized salience of the pitch in the frame.
UpdateEntry(info, present, t, v) ==
    IF present
    THEN [start |-> IF info.start = None THEN t ELSE info.start,
          frames |-> Append(info.frames, v)]
    ELSE IF info.start # None THEN NoNote ELSE info

\* CloseNote with the duration measured to the frame before the closing one.
CloseNoteToLastFrame(info, pitch, t) ==
    IF info.start # None /\ t - 1 - info.start >= min_duration
    THEN <<PNote(info.start, t - 1 - info.start, pitch, Velocity(info.frames))>>
    ELSE <<>>

\* Lines 136-148 and 155-165: the note a pitch's span closes into at time t.
CloseNote(info, pitch, t) ==
    IF info.start # None /\ t - info.start >= min_duration
    THEN <<PNote(info.start, t - info.start, pitch, Velocity(info.frames))>>
    ELSE <<>>

\* The pitches of a set in ascending order.
RECURSIVE Ascending(_)
Ascending(S) ==
    IF S = {} THEN <<>>
    ELSE LET lo == CHOOSE p \in S : \A q \in S : p <= q
         IN  <<lo>> \o Ascending(S \ {lo})

\* The notes closed by the pitches of the sequence ks, in that order.
RECURSIVE ClosedNotes(_, _, _, _)
ClosedNotes(an, ks, current, t) ==
    IF ks = <<>> THEN <<>>
    ELSE (IF ks[1] \in current THEN <<>> ELSE CloseNote(Entry(an, ks[1]), ks[1], t))
         \o ClosedNotes(an, Tail(ks), current, t)

\* EndNotes when the notes still active at the end are forgotten.
EndNotesNone(an, ks, t) == <<>>

\* EndNotes closing one hop after the final frame time.
EndNotesPastEnd(an, ks, t) == ClosedNotes(an, ks, {}, t + 1)

\* Lines 153-165: the notes that extend to the end, in the dict's order.
EndNotes(an, ks, t) == ClosedNotes(an, ks, {}, t)

\* SortDetected without the sort.
SortDetectedNone(s) == s

\* detected_notes.sort(key=lambda x: x[0])
SortDetected(s) == SortByStart(s)

\* Lines 109-151: one iteration of the frame loop on a salience column.
ProcessFrame ==
    /\ p_pc = "run"
    /\ frame_idx < p_n_frames
    /\ \E c \in ColumnsOf(midi_pitches) :
         \E peaks \in {FindPeaks(c, midi_pitches)} :
         \E current_pitches \in {TopPeaks(c, peaks, max_polyphony)} :
         \E all_pitches \in {DOMAIN active_notes \cup current_pitches} :
             /\ active_notes' =
                   [pitch \in all_pitches |->
                       UpdateEntry(Entry(active_notes, pitch), pitch \in current_pitches,
                                   ptimes(frame_idx), Normalized(c, pitch))]
             /\ active_keys' = active_keys \o
                   Ascending(all_pitches \ DOMAIN active_notes)
             /\ detected_notes' = detected_notes \o
                   ClosedNotes(active_notes, Ascending(all_pitches), current_pitches,
                               ptimes(frame_idx))
             /\ peaks_history' = Append(peaks_history, current_pitches)
             /\ salience_silent' = (salience_silent /\ \A p \in DOMAIN c : c[p] = 0)
             /\ peaks_dropped' = (peaks_dropped \/ Cardinality(peaks) > max_polyphony)
    /\ frame_idx' = frame_idx + 1
    /\ UNCHANGED <<p_pc, midi_pitches, max_polyphony, min_duration, p_n_frames>>
    /\ UNCHANGED poly_rest

\* Lines 153-170: close the notes still active, sort by start time, return.
PolyFinish ==
    /\ p_pc = "run"
    /\ frame_idx = p_n_frames
    /\ detected_notes' = SortDetected(detected_notes \o
           EndNotes(active_notes, active_keys, ptimes(p_n_frames - 1)))
    /\ p_pc' = "done"
    /\ UNCHANGED <<midi_pitches, max_polyphony, min_duration, p_n_frames, frame_idx,
                   active_notes, active_keys, peaks_history, salience_silent,
                   peaks_dropped>>
    /\ UNCHANGED poly_rest

PolyIdle ==
    /\ p_pc = "idle"
    /\ midi_pitches = PitchWindow
    /\ max_polyphony = 1
    /\ min_duration = 1
    /\ p_n_frames = 0
    /\ frame_idx = 0
    /\ active_notes = <<>>
    /\ active_keys = <<>>
    /\ detected_notes = <<>>
    /\ peaks_history = <<>>
    /\ salience_silent = TRUE
    /\ peaks_dropped = FALSE

\* The state at entry of detect_polyphonic_notes, for given ranges of its
\* parameters.
PolyEntry(window, Polyphonies, MinDurations, FrameCounts) ==
    /\ p_pc = "run"
    /\ midi_pitches = window
    /\ max_polyphony \in Polyphonies
    /\ min_duration \in MinDurations
    /\ p_n_frames \in FrameCounts
    /\ frame_idx = 0
    /\ active_notes = <<>>
    /\ active_keys = <<>>
    /\ detected_notes = <<>>
    /\ peaks_history = <<>>
    /\ salience_silent = TRUE
    /\ peaks_dropped = FALSE

NextPoly == ProcessFrame \/ PolyFinish

-----------------------------------------------------------------------------
(* Exact comparison of products beyond the range of machine integers: a    *)
(* natural number is a tuple of BigLimbs digits in base BigBase, least     *)
(* significant first.                                                      *)

BigBase == 10000
BigLimbs == 8

BigOf(n) ==
    [k \in 1..BigLimbs |->
        IF k = 1 THEN n % BigBase
        ELSE IF k = 2 THEN (n \div BigBase) % BigBase
        ELSE IF k = 3 THEN n \div (BigBase * BigBase)
        ELSE 0]

RECURSIVE BigConv(_, _, _, _)
BigConv(a, b, k, j) ==
    IF j > k THEN 0 ELSE a[j] * b[k + 1 - j] + BigConv(a, b, k, j + 1)

RECURSIVE BigCarry(_, _, _)
BigCarry(raw, k, c) ==
    IF k > BigLimbs THEN <<>>
    ELSE <<(raw[k] + c) % BigBase>> \o BigCarry(raw, k + 1, (raw[k] + c) \div BigBase)

BigMul(a, b) == BigCarry([k \in 1..BigLimbs |-> BigConv(a, b, k, 1)], 1, 0)

BigLess(a, b) ==
    \E k \in 1..BigLimbs :
        /\ a[k] < b[k]
        /\ \A j \in (k + 1)..BigLimbs : a[j] = b[j]

-----------------------------------------------------------------------------
(* key_chord_detection.py: detect_key_krumhansl *)

PitchClasses == 0..11

\* A 12-vector given as a tuple, indexed by pitch class.
Vector(t) == [pc \in PitchClasses |-> t[pc + 1]]

\* Lines 14-15, in hundredths.
MAJOR_PROFILE == Vector(<<635, 223, 348, 233, 438, 409, 252, 519, 239, 366, 229, 288>>)
MINOR_PROFILE == Vector(<<633, 268, 352, 538, 260, 353, 254, 475, 398, 269, 334, 317>>)

NOTE_NAMES == <<"C", "C#", "D", "D#", "E", "F", "F#", "G", "G#", "A", "A#", "B">>

\* np.roll(x, k): element pc moves to pc + k.
Roll(x, k) == [pc \in PitchClasses |-> x[(pc - k + 24) % 12]]

RECURSIVE Dot(_, _, _)
Dot(x, y, pc) == IF pc > 11 THEN 0 ELSE x[pc] * y[pc] + Dot(x, y, pc + 1)

RECURSIVE Total(_, _)
Total(x, pc) == IF pc > 11 THEN 0 ELSE x[pc] + Total(x, pc + 1)

\* pearsonr(x, y)[0], kept exact: the coefficient is
\* num / sqrt(dx * dy); it is nan when x or y is constant.
pearsonr(x, y) ==
    [num |-> 12 * Dot(x, y, 0) - Total(x, 0) * Total(y, 0),
     dx |-> 12 * Dot(x, x, 0) - Total(x, 0) * Total(x, 0),
     dy |-> 12 * Dot(y, y, 0) - Total(y, 0) * Total(y, 0)]

IsNan(r) == r.dx = 0 \/ r.dy = 0

Square(n) == BigMul(BigOf(Abs(n)), BigOf(Abs(n)))

\* r = 1: the numerator is positive and num^2 = dx * dy.
IsOne(r) ==
    /\ ~IsNan(r)
    /\ r.num > 0
    /\ Square(r.num) = BigMul(BigOf(r.dx), BigOf(r.dy))

\* a > b for two coefficients (False when either is nan).
CorrGreater(a, b) ==
    IF IsNan(a) \/ IsNan(b) THEN FALSE
    ELSE LET l == BigMul(Square(a.num), BigMul(BigOf(b.dx), BigOf(b.dy)))
             r == BigMul(Square(b.num), BigMul(BigOf(a.dx), BigOf(a.dy)))
         IN  IF a.num > 0 /\ b.num > 0 THEN BigLess(r, l)
             ELSE IF a.num > 0 THEN TRUE
             ELSE IF b.num > 0 THEN FALSE
             ELSE BigLess(l, r)

KeyMatch(k, m, c) == [key |-> k, mode |-> m, correlation |-> c]

\* MaxCorrelation that keeps the last entry instead of the greatest.
LastCorrelation(cs) == cs[Len(cs)]

\* max(correlations, key=lambda x: x[2]): the running maximum starts at the
\* first entry and is replaced only by a strictly greater one, so the result
\* is the first entry that no other entry exceeds (the first entry when the
\* coefficients are nan).
MaxCorrelation(cs) ==
    cs[CHOOSE k \in 1..Len(cs) :
           \A j \in 1..Len(cs) :
               IF j < k THEN CorrGreater(cs[k].correlation, cs[j].correlation)
               ELSE ~CorrGreater(cs[j].correlation, cs[k].correlation)]

\* Lines 59-69: one iteration of the loop over the 12 shifts.
KeyCorrelate ==
    /\ k_pc = "run"
    /\ shift < 12
    /\ LET rotated_chroma == Roll(chroma_vector, shift)
       IN  correlations' = correlations \o
               <<KeyMatch(NOTE_NAMES[shift + 1], "major",
                          pearsonr(rotated_chroma, MAJOR_PROFILE)),
                 KeyMatch(NOTE_NAMES[shift + 1], "minor",
                          pearsonr(rotated_chroma, MINOR_PROFILE))>>
    /\ shift' = shift + 1
    /\ UNCHANGED <<k_pc, chroma_vector, best_match>>
    /\ UNCHANGED key_rest

\* Lines 71-74: the best match.
KeyBest ==
    /\ k_pc = "run"
    /\ shift = 12
    /\ best_match' = MaxCorrelation(correlations)
    /\ k_pc' = "done"
    /\ UNCHANGED <<chroma_vector, shift, correlations>>
    /\ UNCHANGED key_rest

NoKey == KeyMatch("None", "None", [num |-> 0, dx |-> 0, dy |-> 0])

KeyIdle ==
    /\ k_pc = "idle"
    /\ chroma_vector = Vector(<<0, 0, 0, 0, 0, 0, 0, 0, 0, 0, 0, 0>>)
    /\ shift = 0
    /\ correlations = <<>>
    /\ best_match = NoKey

KeyEntry(Chromas) ==
    /\ k_pc = "run"
    /\ chroma_vector \in Chromas
    /\ shift = 0
    /\ correlations = <<>>
    /\ best_match = NoKey

NextKey == KeyCorrelate \/ KeyBest

-----------------------------------------------------------------------------
(* key_chord_detection.py: detect_chord *)

\* Lines 18-26, in the order of the dict.
CHORD_TEMPLATES ==
    <<[chord_type |-> "major",      template |-> Vector(<<1, 0, 0, 0, 1, 0, 0, 1, 0, 0, 0, 0>>)],
      [chord_type |-> "minor",      template |-> Vector(<<1, 0, 0, 1, 0, 0, 0, 1, 0, 0, 0, 0>>)],
      [chord_type |-> "diminished", template |-> Vector(<<1, 0, 0, 1, 0, 0, 1, 0, 0, 0, 0, 0>>)],
      [chord_type |-> "augmented",  template |-> Vector(<<1, 0, 0, 0, 1, 0, 0, 0, 1, 0, 0, 0>>)],
      [chord_type |-> "major7",     template |-> Vector(<<1, 0, 0, 0, 1, 0, 0, 1, 0, 0, 0, 1>>)],
      [chord_type |-> "minor7",     template |-> Vector(<<1, 0, 0, 1, 0, 0, 0, 1, 0, 0, 1, 0>>)],
      [chord_type |-> "dominant7",  template |-> Vector(<<1, 0, 0, 0, 1, 0, 0, 1, 0, 0, 1, 0>>)]>>

\* Similarity without the division by the norm of the template.
SimilarityNoTemplateNorm(rotated_chroma, template) ==
    [dot |-> Dot(rotated_chroma, template, 0),
     tt |-> 1,
     xx |-> Dot(rotated_chroma, rotated_chroma, 0)]

\* Lines 150-152: the cosine similarity dot / sqrt(tt * xx), kept exact.
\* chroma_norm is chroma_frame / sum; the similarity does not depend on the
\* positive factor 1 / sum, so the dot products are taken on chroma_frame.
Similarity(rotated_chroma, template) ==
    [dot |-> Dot(rotated_chroma, template, 0),
     tt |-> Dot(template, template, 0),
     xx |-> Dot(rotated_chroma, rotated_chroma, 0)]

\* best_correlation = -1
MinusOne == [dot |-> -1, tt |-> 1, xx |-> 1]

Zero == [dot |-> 0, tt |-> 1, xx |-> 1]

\* a > b for a similarity a of a non-negative chroma and b a similarity or -1.
SimGreater(a, b) ==
    IF b.dot < 0 THEN a.dot >= 0
    ELSE a.dot * a.dot * b.tt * b.xx > b.dot * b.dot * a.tt * a.xx

\* SimAtLeast that tests against 1/2 whatever the threshold is.
SimAtLeastHalf(a, n, d) ==
    a.dot >= 0 /\ 4 * a.dot * a.dot >= a.tt * a.xx

\* a >= n / d
SimAtLeast(a, n, d) ==
    a.dot >= 0 /\ d * d * a.dot * a.dot >= n * n * a.tt * a.xx

\* a = 1
SimIsOne(a) == a.dot > 0 /\ a.dot * a.dot = a.tt * a.xx

ChordMatch(r, t, c) == [root |-> r, chord_type |-> t, confidence |-> c]

\* What detect_chord returns when no chord is accepted: (None, None, 0).
NoChord == ChordMatch("None", "None", Zero)

\* Correlations with np.roll(chroma_norm, root) in place of
\* np.roll(chroma_norm, -root).
CorrelationsRolledForward(chroma_norm) ==
    [k \in 0..(12 * Len(CHORD_TEMPLATES) - 1) |->
        Similarity(Roll(chroma_norm, k \div Len(CHORD_TEMPLATES)),
                   CHORD_TEMPLATES[(k % Len(CHORD_TEMPLATES)) + 1].template)]

\* Lines 144-156: the loops over the 12 roots and the 7 templates. Pair k
\* (0-based, in loop order) is root k \div 7 with template k % 7. Every
\* similarity of a non-negative chroma is above the initial -1, and
\* best_match is replaced only by a strictly greater correlation: the result
\* is the first pair whose similarity no other pair exceeds.
Correlations(chroma_norm) ==
    [k \in 0..(12 * Len(CHORD_TEMPLATES) - 1) |->
        Similarity(Roll(chroma_norm, 12 - (k \div Len(CHORD_TEMPLATES))),
                   CHORD_TEMPLATES[(k % Len(CHORD_TEMPLATES)) + 1].template)]

BestPair(correlation) ==
    CHOOSE k \in DOMAIN correlation :
        /\ SimGreater(correlation[k], MinusOne)
        /\ \A j \in DOMAIN correlation :
             IF j < k THEN SimGreater(correlation[k], correlation[j])
             ELSE ~SimGreater(correlation[j], correlation[k])

MatchOf(correlation, best) ==
    ChordMatch(NOTE_NAMES[(best \div Len(CHORD_TEMPLATES)) + 1],
               CHORD_TEMPLATES[(best % Len(CHORD_TEMPLATES)) + 1].chord_type,
               correlation[best])

BestOf(correlation) == MatchOf(correlation, BestPair(correlation))

BestChord(chroma_norm) == BestOf(Correlations(chroma_norm))

\* detect_chord without the threshold test of lines 159-162.
detect_chord_unthresholded(frame) ==
    IF Total(frame, 0) > 0 THEN BestChord(frame) ELSE NoChord

\* Lines 126-162.
detect_chord(frame) ==
    IF Total(frame, 0) > 0
    THEN LET best == BestChord(frame)
         IN  IF SimAtLeast(best.confidence, chord_threshold_num, chord_threshold_den)
             THEN best
             ELSE NoChord
    ELSE NoChord

DetectChordCall ==
    /\ d_pc = "call"
    /\ chord_match' = detect_chord(chroma_frame)
    /\ d_pc' = "returned"
    /\ UNCHANGED chroma_frame
    /\ UNCHANGED det_rest

DetIdle ==
    /\ d_pc = "idle"
    /\ chroma_frame = Vector(<<0, 0, 0, 0, 0, 0, 0, 0, 0, 0, 0, 0>>)
    /\ chord_match = NoChord

DetEntry(ChromaSet) ==
    /\ d_pc = "call"
    /\ chroma_frame \in ChromaSet
    /\ chord_match = NoChord

NextDet == DetectChordCall

-----------------------------------------------------------------------------
(* key_chord_detection.py: detect_chord_progression *)

\* The mean chroma of a segment: silence, the C major and A minor triads,
\* C major with a louder root, the single tone C, and a uniform vector.
SegmentChromas ==
    {[pc \in 0..11 |-> 0],
     [pc \in 0..11 |-> IF pc \in {0, 4, 7} THEN 1 ELSE 0],
     [pc \in 0..11 |-> IF pc \in {9, 0, 4} THEN 1 ELSE 0],
     [pc \in 0..11 |-> IF pc = 0 THEN 2 ELSE IF pc \in {4, 7} THEN 1 ELSE 0],
     [pc \in 0..11 |-> IF pc = 0 THEN 1 ELSE 0],
     [pc \in 0..11 |-> 1]}

\* Line 196: detect_chord(mean_segment_chroma) for each of them.
SegmentLabels == [x \in SegmentChromas |-> detect_chord(x)]

\* f"{root}{'' if chord_type == 'major' else chord_type}", kept as the pair
\* it is built from (the string is different for different pairs).
ChordName(d) == <<d.root, d.chord_type>>

\* times[k] of detect_chord_progression, in ticks.
ctimes(k) == k

Segment(s, d, n, c) == [start |-> s, duration |-> d, chord |-> n, confidence |-> c]

\* Lines 202-218: merge consecutive entries with the same chord name; cp is
\* the progression, k the next index, cur the current chord.
RECURSIVE SmoothFrom(_, _, _, _)
SmoothFrom(cp, k, cur, last_time) ==
    IF k > Len(cp)
    THEN <<Segment(cur.time, last_time - cur.time, cur.name, cur.confidence)>>
    ELSE IF cp[k].name # cur.name
    THEN <<Segment(cur.time, cp[k].time - cur.time, cur.name, cur.confidence)>>
         \o SmoothFrom(cp, k + 1, cp[k], last_time)
    ELSE SmoothFrom(cp, k + 1, cur, last_time)

\* Smooth with every duration taken up to the last frame: one segment per
\* run of equally named entries, each lasting until last_time.
SmoothToEnd(cp, last_time) ==
    LET starts == {j \in 1..Len(cp) : j = 1 \/ cp[j - 1].name # cp[j].name}
        nth(e) == CHOOSE j \in starts : Cardinality({l \in starts : l <= j}) = e
    IN  [e \in 1..Cardinality(starts) |->
            Segment(cp[nth(e)].time, last_time - cp[nth(e)].time,
                    cp[nth(e)].name, cp[nth(e)].confidence)]

\* Smooth without the merge: one segment per entry of the progression.
SmoothUnmerged(cp, last_time) ==
    [k \in 1..Len(cp) |->
        Segment(cp[k].time,
                (IF k < Len(cp) THEN cp[k + 1].time ELSE last_time) - cp[k].time,
                cp[k].name, cp[k].confidence)]

Smooth(cp, last_time) ==
    IF cp = <<>> THEN <<>> ELSE SmoothFrom(cp, 2, cp[1], last_time)

\* Lines 188-200: one iteration of the segment loop.
ChordSegment ==
    /\ c_pc = "run"
    /\ seg_start < c_n_frames
    /\ \E mean_segment_chroma \in SegmentChromas :
         \E d \in {SegmentLabels[mean_segment_chroma]} :
           /\ chord_progression' =
                 IF d.root # "None"
                 THEN Append(chord_progression,
                             [time |-> ctimes(seg_start), name |-> ChordName(d),
                              confidence |-> d.confidence])
                 ELSE chord_progression
           /\ segment_chromas' = Append(segment_chromas, mean_segment_chroma)
    /\ seg_start' = seg_start + segment_frames
    /\ UNCHANGED <<c_pc, c_n_frames, segment_frames, smoothed_progression>>
    /\ UNCHANGED chord_rest

\* Lines 202-222: the smoothing pass and the return.
ChordSmooth ==
    /\ c_pc = "run"
    /\ seg_start >= c_n_frames
    /\ smoothed_progression' = Smooth(chord_progression, ctimes(c_n_frames - 1))
    /\ c_pc' = "done"
    /\ UNCHANGED <<c_n_frames, segment_frames, seg_start, chord_progression,
                   segment_chromas>>
    /\ UNCHANGED chord_rest

ChordIdle ==
    /\ c_pc = "idle"
    /\ c_n_frames = 0
    /\ segment_frames = 1
    /\ seg_start = 0
    /\ chord_progression = <<>>
    /\ smoothed_progression = <<>>
    /\ segment_chromas = <<>>

ChordEntry ==
    /\ c_pc = "run"
    /\ c_n_frames \in 0..MaxChromaFrames
    /\ segment_frames \in 1..MaxSegmentFrames
    /\ seg_start = 0
    /\ chord_progression = <<>>
    /\ smoothed_progression = <<>>
    /\ segment_chromas = <<>>

NextChord == ChordSegment \/ ChordSmooth

-----------------------------------------------------------------------------
(* quantize_to_grid applied to a time and again to its result *)

QuantizeFirst ==
    /\ q_pc = "start"
    /\ q_once' = quantize_to_grid(q_time, q_beats)
    /\ q_pc' = "once"
    /\ UNCHANGED <<q_beats, q_time, q_twice>>
    /\ UNCHANGED quant_rest

QuantizeSecond ==
    /\ q_pc = "once"
    /\ q_twice' = quantize_to_grid(q_once, q_beats)
    /\ q_pc' = "twice"
    /\ UNCHANGED <<q_beats, q_time, q_once>>
    /\ UNCHANGED quant_rest

QuantIdle ==
    /\ q_pc = "idle"
    /\ q_beats = <<>>
    /\ q_time = 0
    /\ q_once = 0
    /\ q_twice = 0

\* A beat sequence of at most MaxBeats strictly increasing ticks and a time
\* from one tick before zero to one tick past the last candidate beat, at
\* fine-unit resolution.
QuantEntry ==
    /\ q_pc = "start"
    /\ \E raw \in IncreasingSeqs(0..MaxBeatTick, MaxBeats) :
         /\ q_beats = [k \in 1..Len(raw) |-> raw[k] * FineUnits(raw)]
         /\ q_time \in (-FineUnits(raw))..((MaxBeatTick + 1) * FineUnits(raw))
    /\ q_once = 0
    /\ q_twice = 0

NextQuant == QuantizeFirst \/ QuantizeSecond

-----------------------------------------------------------------------------
(* realtime_audio.py: RealtimeTranscriber, one live session.  The two      *)
(* workers and the main thread interleave; each action is one step between *)
(* two reads or writes of shared state.                                    *)

\* result_queue.put: room is kept by the guard of ProcInterval.
PutResult(kind) ==
    /\ result_queue' = Append(result_queue, kind)
    /\ put_after_flag' = (put_after_flag \/ ~is_running)
    /\ put_after_return' = (put_after_return \/ rt_main = "returned")

NoResult == UNCHANGED <<result_queue, put_after_flag, put_after_return>>

\* Lines 235-262: start().
RtStart ==
    /\ rt_main = "constructed"
    /\ is_running' = TRUE
    /\ stream' = "open"
    /\ rt_reader' = "test"
    /\ rt_proc' = "test"
    /\ rt_main' = "started"
    /\ UNCHANGED <<transcription_mode, audio_queue, audio_buffer, result_queue,
                   stopped_in_flight, put_after_flag, put_after_return>>
    /\ UNCHANGED rt_rest

\* Lines 65-78: audio_callback, called by the open stream.
AudioCallback ==
    /\ stream = "open"
    /\ audio_queue < MaxAudioQueue
    /\ audio_queue' = audio_queue + 1
    /\ UNCHANGED <<rt_main, rt_reader, rt_proc, transcription_mode, is_running, stream,
                   audio_buffer, result_queue, stopped_in_flight, put_after_flag,
                   put_after_return>>
    /\ UNCHANGED rt_rest

\* Line 84: while self.is_running
ReaderTest ==
    /\ rt_reader = "test"
    /\ rt_reader' = IF is_running THEN "get" ELSE "exited"
    /\ UNCHANGED <<rt_main, rt_proc, transcription_mode, is_running, stream,
                   audio_queue, audio_buffer, result_queue, stopped_in_flight,
                   put_after_flag, put_after_return>>
    /\ UNCHANGED rt_rest

\* Lines 85-95: a chunk moves to the rolling buffer (a deque with maxlen), or
\* the get times out.
ReaderGet ==
    /\ rt_reader = "get"
    /\ IF audio_queue > 0
       THEN /\ audio_queue' = audio_queue - 1
            /\ audio_buffer' = IF audio_buffer < MaxAudioBuffer
                               THEN audio_buffer + 1 ELSE audio_buffer
       ELSE UNCHANGED <<audio_queue, audio_buffer>>
    /\ rt_reader' = "test"
    /\ UNCHANGED <<rt_main, rt_proc, transcription_mode, is_running, stream,
                   result_queue, stopped_in_flight, put_after_flag, put_after_return>>
    /\ UNCHANGED rt_rest

\* Line 103: while self.is_running
ProcTest ==
    /\ rt_proc = "test"
    /\ rt_proc' = IF is_running THEN "interval" ELSE "exited"
    /\ UNCHANGED <<rt_main, rt_reader, transcription_mode, is_running, stream,
                   audio_queue, audio_buffer, result_queue, stopped_in_flight,
                   put_after_flag, put_after_return>>
    /\ UNCHANGED rt_rest

\* Lines 104-111: an analysis starts when the interval has elapsed and the
\* buffer holds more than one chunk.
ProcInterval ==
    /\ rt_proc = "interval"
    /\ \E due \in BOOLEAN :
         rt_proc' = IF due /\ audio_buffer > 1 /\ Len(result_queue) + 2 <= MaxResults
                    THEN "analyse" ELSE "sleep"
    /\ UNCHANGED <<rt_main, rt_reader, transcription_mode, is_running, stream,
                   audio_queue, audio_buffer, result_queue, stopped_in_flight,
                   put_after_flag, put_after_return>>
    /\ UNCHANGED rt_rest

\* Lines 114-117 with 130-201: process_monophonic or process_polyphonic puts
\* a result, or none, or raises (caught at line 124).
ProcAnalyse ==
    /\ rt_proc = "analyse"
    /\ \E outcome \in {"result", "none", "error"} :
         /\ IF outcome = "result"
            THEN PutResult(IF transcription_mode = "monophonic"
                           THEN "pitch" ELSE "polyphonic")
            ELSE NoResult
         /\ rt_proc' = IF outcome = "error" THEN "sleep" ELSE "chord"
    /\ UNCHANGED <<rt_main, rt_reader, transcription_mode, is_running, stream,
                   audio_queue, audio_buffer, stopped_in_flight>>
    /\ UNCHANGED rt_rest

\* Lines 120-125 with 203-233: process_chord puts a result when the chord
\* changed.
ProcChord ==
    /\ rt_proc = "chord"
    /\ \E changed \in BOOLEAN :
         IF changed THEN PutResult("chord") ELSE NoResult
    /\ rt_proc' = "sleep"
    /\ UNCHANGED <<rt_main, rt_reader, transcription_mode, is_running, stream,
                   audio_queue, audio_buffer, stopped_in_flight>>
    /\ UNCHANGED rt_rest

\* Line 128: time.sleep(0.01)
ProcSleep ==
    /\ rt_proc = "sleep"
    /\ rt_proc' = "test"
    /\ UNCHANGED <<rt_main, rt_reader, transcription_mode, is_running, stream,
                   audio_queue, audio_buffer, result_queue, stopped_in_flight,
                   put_after_flag, put_after_return>>
    /\ UNCHANGED rt_rest

\* Line 270: self.is_running = False
StopClearFlag ==
    /\ rt_main = "started"
    /\ is_running' = FALSE
    /\ stopped_in_flight' = (rt_proc \in {"analyse", "chord"})
    /\ rt_main' = "flag_cleared"
    /\ UNCHANGED <<rt_reader, rt_proc, transcription_mode, stream, audio_queue,
                   audio_buffer, result_queue, put_after_flag, put_after_return>>
    /\ UNCHANGED rt_rest

\* Lines 273-275: stop and close the stream.
StopStream ==
    /\ rt_main = "flag_cleared"
    /\ stream' = IF stream = "none" THEN "none" ELSE "closed"
    /\ rt_main' = "stream_closed"
    /\ UNCHANGED <<rt_reader, rt_proc, transcription_mode, is_running, audio_queue,
                   audio_buffer, result_queue, stopped_in_flight, put_after_flag,
                   put_after_return>>
    /\ UNCHANGED rt_rest

\* Lines 278-279: self.audio_thread.join()
StopJoinAudio ==
    /\ rt_main = "stream_closed"
    /\ rt_reader \in {"none", "exited"}
    /\ rt_main' = "audio_joined"
    /\ UNCHANGED <<rt_reader, rt_proc, transcription_mode, is_running, stream,
                   audio_queue, audio_buffer, result_queue, stopped_in_flight,
                   put_after_flag, put_after_return>>
    /\ UNCHANGED rt_rest

\* stop() without the join of the processing thread.
StopJoinProcessingNoWait ==
    /\ rt_main = "audio_joined"
    /\ rt_main' = "returned"
    /\ UNCHANGED <<rt_reader, rt_proc, transcription_mode, is_running, stream,
                   audio_queue, audio_buffer, result_queue, stopped_in_flight,
                   put_after_flag, put_after_return>>
    /\ UNCHANGED rt_rest

\* Lines 280-286: self.processing_thread.join(), terminate, return.
StopJoinProcessing ==
    /\ rt_main = "audio_joined"
    /\ rt_proc \in {"none", "exited"}
    /\ rt_main' = "returned"
    /\ UNCHANGED <<rt_reader, rt_proc, transcription_mode, is_running, stream,
                   audio_queue, audio_buffer, result_queue, stopped_in_flight,
                   put_after_flag, put_after_return>>
    /\ UNCHANGED rt_rest

\* Lines 288-298: get_results takes the oldest result.
GetResults ==
    /\ rt_main \notin {"idle", "constructed"}
    /\ result_queue # <<>>
    /\ result_queue' = Tail(result_queue)
    /\ UNCHANGED <<rt_main, rt_reader, rt_proc, transcription_mode, is_running, stream,
                   audio_queue, audio_buffer, stopped_in_flight, put_after_flag,
                   put_after_return>>
    /\ UNCHANGED rt_rest

\* Lines 35-63: the fields after __init__.
RtConstructed ==
    /\ rt_reader = "none"
    /\ rt_proc = "none"
    /\ is_running = FALSE
    /\ stream = "none"
    /\ audio_queue = 0
    /\ audio_buffer = 0
    /\ result_queue = <<>>
    /\ stopped_in_flight = FALSE
    /\ put_after_flag = FALSE
    /\ put_after_return = FALSE

RtIdle ==
    /\ rt_main = "idle"
    /\ transcription_mode = "monophonic"
    /\ RtConstructed

RtEntry ==
    /\ rt_main = "constructed"
    /\ transcription_mode \in {"monophonic", "polyphonic"}
    /\ RtConstructed

ReaderStep == ReaderTest \/ ReaderGet

ProcStep == ProcTest \/ ProcInterval \/ ProcAnalyse \/ ProcChord \/ ProcSleep

StopStep == StopStream \/ StopJoinAudio \/ StopJoinProcessing

NextRt ==
    \/ RtStart \/ AudioCallback \/ GetResults \/ StopClearFlag
    \/ ReaderStep \/ ProcStep \/ StopStep

-----------------------------------------------------------------------------
(* The writers of midi_writer_improved.py, midi_writer_advanced.py,        *)
(* polyphonic_transcription.py and key_chord_detection.py.  Times are in   *)
(* hundredths of a second; one action is one call.                         *)

Writers == {"write_midi_improved", "write_midi_with_filtering", "write_midi_advanced",
            "smooth_midi_dynamics", "write_polyphonic_midi", "create_chord_midi"}

NoteStarts == {0, 10, 50}

NoteDurations == {4, 20}

NotePitches == {20, 60}

NoteVelocities == {80}

\* The tuples (start, duration, pitch) handed to a writer;
\* write_polyphonic_midi also reads the velocity.
InputNotes ==
    {PNote(s, d, p, v) : s \in NoteStarts, d \in NoteDurations, p \in NotePitches,
                         v \in NoteVelocities}

\* Chord names as detect_chord_progression writes them (root, then the type
\* unless it is major), character by character, and a name with no root.
ChordNames ==
    {<<"C">>, <<"A", "m", "i", "n", "o", "r">>, <<"F", "#", "d", "i", "m">>, <<"N">>}

\* The tuples (start, duration, chord_name, confidence); confidence in
\* hundredths.
InputChords ==
    {[start |-> s, duration |-> 50, chord_name |-> c, confidence |-> 75] :
        s \in {0, 50}, c \in ChordNames}

TuplesUpTo(S, n) == UNION {[1..k -> S] : k \in 0..n}

\* pretty_midi.Note(velocity, pitch, start, end)
MidiNote(v, p, s, e) == [velocity |-> v, pitch |-> p, start |-> s, end |-> e]

Min(a, b) == IF a <= b THEN a ELSE b

\* np.clip
Clip(x, lo, hi) == Max(lo, Min(x, hi))

RECURSIVE SumSeq(_)
SumSeq(s) == IF s = <<>> THEN 0 ELSE Head(s) + SumSeq(Tail(s))

\* The end of every call that reaches pm.write: the instrument and the
\* percussion track written, and the exception raised after it, if any.
WriterDone(written, percussion, error) ==
    /\ instrument_notes' = written
    /\ percussion_notes' = percussion
    /\ file_written' = TRUE
    /\ w_error' = error
    /\ w_pc' = "done"
    /\ UNCHANGED <<writer, w_notes>>
    /\ UNCHANGED w_rest

\* midi_writer_improved.py lines 3-44; the statistics of lines 42-44 are
\* guarded by "if notes".
write_midi_improved ==
    /\ w_pc = "called"
    /\ writer = "write_midi_improved"
    /\ WriterDone([k \in 1..Len(w_notes) |->
                      MidiNote(velocity, w_notes[k].pitch, w_notes[k].start,
                               w_notes[k].start + w_notes[k].duration)],
                  0, "none")

\* Lines 64-68: the notes kept by the duration and pitch filters.
Kept(n) ==
    /\ filter_min_duration <= n.duration
    /\ n.duration <= filter_max_duration
    /\ 21 <= n.pitch
    /\ n.pitch <= 108

\* midi_writer_improved.py lines 47-84.
write_midi_with_filtering ==
    /\ w_pc = "called"
    /\ writer = "write_midi_with_filtering"
    /\ LET filtered_notes == SelectSeq(w_notes, Kept)
       IN  WriterDone([k \in 1..Len(filtered_notes) |->
                          MidiNote(velocity, filtered_notes[k].pitch,
                                   filtered_notes[k].start,
                                   filtered_notes[k].start + filtered_notes[k].duration)],
                      0, "none")

\* Lines 51-62: a note that starts before the previous one ends trims it, to
\* 50 ms at least.
RECURSIVE CleanNotes(_)
CleanNotes(s) ==
    IF s = <<>> THEN <<>>
    ELSE LET cleaned == CleanNotes(SubSeq(s, 1, Len(s) - 1))
             x == s[Len(s)]
         IN  IF cleaned # <<>> /\ x.start < Last(cleaned).start + Last(cleaned).duration
             THEN LET prev == Last(cleaned)
                  IN  SubSeq(cleaned, 1, Len(cleaned) - 1)
                      \o <<PNote(prev.start, Max(min_note_length, x.start - prev.start),
                                 prev.pitch, prev.velocity)>>
                      \o <<x>>
             ELSE Append(cleaned, x)

\* Lines 67-90: downbeats are accented and short notes lengthened.
AdvancedNote(n) ==
    LET measure_duration == time_signature[1] * (6000 \div tempo)
        note_velocity == IF 10 * (n.start % measure_duration) < measure_duration
                         THEN Min(127, (velocity * 11) \div 10)
                         ELSE velocity
        end == IF n.duration < min_note_length
               THEN n.start + min_note_length ELSE n.start + n.duration
    IN  MidiNote(note_velocity, n.pitch, n.start, end)

\* pm.get_end_time() with one instrument and the time signature at 0.
RECURSIVE EndTime(_)
EndTime(written) ==
    IF written = <<>> THEN 0 ELSE Max(Head(written).end, EndTime(Tail(written)))

\* Lines 96-125: len(np.arange(0, end, beat_duration)) beats, kept when
\* they are fewer than twice the notes.
Percussion(written) ==
    LET beat_duration == 6000 \div tempo
        beats == (EndTime(written) + beat_duration - 1) \div beat_duration
    IN  IF beats < 2 * Len(written) THEN beats ELSE 0

\* midi_writer_advanced.py lines 16-142; the statistics of lines 136-142 are
\* guarded by "if notes".
write_midi_advanced ==
    /\ w_pc = "called"
    /\ writer = "write_midi_advanced"
    /\ LET sorted_notes == CleanNotes(SortByStart(w_notes))
           written == [k \in 1..Len(sorted_notes) |-> AdvancedNote(sorted_notes[k])]
       IN  WriterDone(written, Percussion(written), "none")

\* Lines 173-177 and 194-196: the slice [max(0, i - w // 2) : min(n, i + w // 2 + 1)]
\* around the 1-based index i of a list of n elements, as <<first, last>>.
Window(k, n) ==
    <<Max(1, k - (smoothing_window \div 2)), Min(n, k + (smoothing_window \div 2))>>

\* Lines 168-187: the velocity of note i before smoothing,
\* int(base_velocity * pitch_factor * density_factor) clipped to the range;
\* pitch_factor in sixtieths.
RawVelocity(sorted_notes, k) ==
    LET pitch_factor == Clip(120 - sorted_notes[k].pitch, 42, 78)
        w == Window(k, Len(sorted_notes))
        window_len == w[2] - w[1] + 1
        scale == 5 * (smoothing_window + 1)
    IN  Clip(((dynamic_range[1] + dynamic_range[2]) * pitch_factor * scale)
                 \div (120 * (scale + window_len)),
             dynamic_range[1], dynamic_range[2])

\* Lines 190-198: the moving average, applied to longer lists only.
Smoothed(velocities) ==
    IF Len(velocities) > smoothing_window
    THEN [k \in 1..Len(velocities) |->
            LET w == Window(k, Len(velocities))
            IN  SumSeq(SubSeq(velocities, w[1], w[2])) \div (w[2] - w[1] + 1)]
    ELSE velocities

\* midi_writer_advanced.py lines 144-221.  The file is written at line 218;
\* line 221 then takes min(velocities) and max(velocities), which raise
\* ValueError on an empty list.
smooth_midi_dynamics ==
    /\ w_pc = "called"
    /\ writer = "smooth_midi_dynamics"
    /\ LET sorted_notes == SortByStart(w_notes)
           velocities == Smoothed([k \in 1..Len(sorted_notes) |->
                                      RawVelocity(sorted_notes, k)])
       IN  WriterDone([k \in 1..Len(sorted_notes) |->
                          MidiNote(IF sorted_notes[k].duration < 10
                                   THEN (velocities[k] * 4) \div 5 ELSE velocities[k],
                                   sorted_notes[k].pitch, sorted_notes[k].start,
                                   sorted_notes[k].start + sorted_notes[k].duration)],
                      0,
                      IF velocities = <<>> THEN "ValueError" ELSE "none")

\* polyphonic_transcription.py lines 215-255; the statistics sort an empty
\* dictionary when there are no notes.
write_polyphonic_midi ==
    /\ w_pc = "called"
    /\ writer = "write_polyphonic_midi"
    /\ WriterDone([k \in 1..Len(w_notes) |->
                      MidiNote(w_notes[k].velocity, w_notes[k].pitch, w_notes[k].start,
                               w_notes[k].start + w_notes[k].duration)],
                  0, "none")

\* Lines 239-244: the root is the first character, with a following "#".
RootName(chord_name) ==
    IF Len(chord_name) > 1 /\ chord_name[2] = "#"
    THEN SubSeq(chord_name, 1, 2) ELSE SubSeq(chord_name, 1, 1)

ChordType(chord_name) ==
    LET rest == SubSeq(chord_name, Len(RootName(chord_name)) + 1, Len(chord_name))
    IN  IF rest = <<>> THEN <<"m", "a", "j", "o", "r">> ELSE rest

\* NOTE_NAMES character by character.
NoteChars ==
    <<<<"C">>, <<"C", "#">>, <<"D">>, <<"D", "#">>, <<"E">>, <<"F">>, <<"F", "#">>,
      <<"G">>, <<"G", "#">>, <<"A">>, <<"A", "#">>, <<"B">>>>

\* Lines 254-269.
Intervals(chord_type) ==
    IF chord_type \in {<<"m", "i", "n", "o", "r">>, <<"m">>} THEN <<0, 3, 7>>
    ELSE IF chord_type \in {<<"d", "i", "m", "i", "n", "i", "s", "h", "e", "d">>,
                            <<"d", "i", "m">>} THEN <<0, 3, 6>>
    ELSE IF chord_type \in {<<"a", "u", "g", "m", "e", "n", "t", "e", "d">>,
                            <<"a", "u", "g">>} THEN <<0, 4, 8>>
    ELSE IF chord_type \in {<<"m", "a", "j", "o", "r", "7">>,
                            <<"m", "a", "j", "7">>} THEN <<0, 4, 7, 11>>
    ELSE IF chord_type \in {<<"m", "i", "n", "o", "r", "7">>,
                            <<"m", "7">>} THEN <<0, 3, 7, 10>>
    ELSE IF chord_type \in {<<"d", "o", "m", "i", "n", "a", "n", "t", "7">>,
                            <<"7">>} THEN <<0, 4, 7, 10>>
    ELSE <<0, 4, 7>>

\* Lines 246-280: the notes of one chord; a root that is not a note name is
\* skipped.
ChordNotes(c) ==
    LET root_name == RootName(c.chord_name)
    IN  IF \E idx \in 1..12 : NoteChars[idx] = root_name
        THEN LET root_midi == 60 + (CHOOSE idx \in 1..12 : NoteChars[idx] = root_name) - 1
                 intervals == Intervals(ChordType(c.chord_name))
             IN  [n \in 1..Len(intervals) |->
                    MidiNote(c.confidence, root_midi + intervals[n], c.start,
                             c.start + c.duration)]
        ELSE <<>>

RECURSIVE Piano(_)
Piano(progression) ==
    IF progression = <<>> THEN <<>>
    ELSE ChordNotes(Head(progression)) \o Piano(Tail(progression))

\* key_chord_detection.py lines 224-285.
create_chord_midi ==
    /\ w_pc = "called"
    /\ writer = "create_chord_midi"
    /\ WriterDone(Piano(w_notes), 0, "none")

WriterFresh ==
    /\ instrument_notes = <<>>
    /\ percussion_notes = 0
    /\ file_written = FALSE
    /\ w_error = "none"

WriterIdle ==
    /\ w_pc = "idle"
    /\ writer = "none"
    /\ w_notes = <<>>
    /\ WriterFresh

WriterEntry ==
    /\ w_pc = "called"
    /\ writer \in Writers
    /\ w_notes \in IF writer = "create_chord_midi"
                   THEN TuplesUpTo(InputChords, MaxNotes)
                   ELSE TuplesUpTo(InputNotes, MaxNotes)
    /\ WriterFresh

NextWriters ==
    \/ write_midi_improved \/ write_midi_with_filtering \/ write_midi_advanced
    \/ smooth_midi_dynamics \/ write_polyphonic_midi \/ create_chord_midi

-----------------------------------------------------------------------------
(* key_chord_detection.py: detect_key_signature *)

\* Lines 59-69 as a function of the argument: the 24 entries in loop order.
KrumhanslCorrelations(chroma) ==
    [k \in 1..24 |->
        LET rotated_chroma == Roll(chroma, (k - 1) \div 2)
        IN  IF k % 2 = 1
            THEN KeyMatch(NOTE_NAMES[(k - 1) \div 2 + 1], "major",
                          pearsonr(rotated_chroma, MAJOR_PROFILE))
            ELSE KeyMatch(NOTE_NAMES[(k - 1) \div 2 + 1], "minor",
                          pearsonr(rotated_chroma, MINOR_PROFILE))]

\* Lines 49-74.
detect_key_krumhansl(chroma) == MaxCorrelation(KrumhanslCorrelations(chroma))

\* The frames of the chroma matrix. extract_chroma_features normalises every
\* frame to sum 1 (line 45); here every frame sums to FrameTotal: the tones
\* C and G, the C major and the A minor triad.
FrameTotal == 6

FrameChromas ==
    {[pc \in PitchClasses |-> IF pc = 0 THEN FrameTotal ELSE 0],
     [pc \in PitchClasses |-> IF pc = 7 THEN FrameTotal ELSE 0],
     [pc \in PitchClasses |-> IF pc \in {0, 4, 7} THEN FrameTotal \div 3 ELSE 0],
     [pc \in PitchClasses |-> IF pc \in {9, 0, 4} THEN FrameTotal \div 3 ELSE 0]}

\* np.mean(chroma[:, a:b], axis=1) times the number of frames, for the
\* 0-based frames a..b-1 that exist. The correlation of pearsonr is the same
\* for a vector and for a positive multiple of it.
RECURSIVE SumChroma(_, _, _)
SumChroma(chroma, a, b) ==
    IF a >= b \/ a >= Len(chroma) THEN [pc \in PitchClasses |-> 0]
    ELSE [pc \in PitchClasses |-> chroma[a + 1][pc] + SumChroma(chroma, a + 1, b)[pc]]

\* The sums a call can take the key of, and the key of each of them.
WindowSums ==
    UNION {{SumChroma(c, 0, Len(c)) : c \in [1..n -> FrameChromas]} : n \in 1..MaxSigFrames}

KeyOfSum == [x \in WindowSums |-> detect_key_krumhansl(x)]

\* f"{win_key} {win_mode}", kept as the pair it is built from.
KeyName(m) == <<m.key, m.mode>>

\* key_counter.most_common(1)[0][1]: the greatest count of one name.
MostCommonCount(keys) ==
    LET count(k) == Cardinality({j \in DOMAIN keys : keys[j] = keys[k]})
    IN  count(CHOOSE k \in DOMAIN keys : \A j \in DOMAIN keys : count(j) <= count(k))

Fraction(n, d) == [num |-> n, den |-> d]

NoConsistency == Fraction(0, 0)

\* Lines 88-98: the global key, the window size and the stride.
KeySigGlobal ==
    /\ sig_pc = "start"
    /\ global_key' = KeyOfSum[SumChroma(sig_chroma, 0, Len(sig_chroma))]
    /\ sig_pc' = "windows"
    /\ UNCHANGED <<sig_chroma, window_size, win_start, windowed_keys, consistency>>
    /\ UNCHANGED sig_rest

\* Lines 101-104: one window of the loop
\* range(0, chroma.shape[1] - window_size, stride).
KeySigWindow ==
    /\ sig_pc = "windows"
    /\ win_start < Len(sig_chroma) - window_size
    /\ LET win == KeyOfSum[SumChroma(sig_chroma, win_start, win_start + window_size)]
       IN  windowed_keys' = Append(windowed_keys, KeyName(win))
    /\ win_start' = win_start + window_size \div 2
    /\ UNCHANGED <<sig_pc, sig_chroma, window_size, global_key, consistency>>
    /\ UNCHANGED sig_rest

\* Lines 107-120: the consistency and the result.
KeySigResult ==
    /\ sig_pc = "windows"
    /\ win_start >= Len(sig_chroma) - window_size
    /\ consistency' =
          IF windowed_keys # <<>>
          THEN Fraction(MostCommonCount(windowed_keys), Len(windowed_keys))
          ELSE Fraction(1, 1)
    /\ sig_pc' = "done"
    /\ UNCHANGED <<sig_chroma, window_size, win_start, windowed_keys, global_key>>
    /\ UNCHANGED sig_rest

KeySigIdle ==
    /\ sig_pc = "idle"
    /\ sig_chroma = <<>>
    /\ window_size = 2
    /\ win_start = 0
    /\ windowed_keys = <<>>
    /\ global_key = NoKey
    /\ consistency = NoConsistency

KeySigEntry ==
    /\ sig_pc = "start"
    /\ \E n \in 1..MaxSigFrames : sig_chroma \in [1..n -> FrameChromas]
    /\ window_size \in 2..MaxWindowSize
    /\ win_start = 0
    /\ windowed_keys = <<>>
    /\ global_key = NoKey
    /\ consistency = NoConsistency

NextKeySig == KeySigGlobal \/ KeySigWindow \/ KeySigResult

-----------------------------------------------------------------------------
(* key_chord_detection.py: analyze_harmonic_structure *)

\* NOTE_NAMES.index(name), 0-based.
NoteIndex(name) == CHOOSE k \in PitchClasses : NOTE_NAMES[k + 1] = name

\* chord_name[0]: the first character of the chord name, which is the first
\* character of the name of its root.
FirstChar(name) ==
    CASE name[1] = "C#" -> "C"
      [] name[1] = "D#" -> "D"
      [] name[1] = "F#" -> "F"
      [] name[1] = "G#" -> "G"
      [] name[1] = "A#" -> "A"
      [] OTHER -> name[1]

\* The name of the root of the chord, sharp included.
RootOf(name) == name[1]

\* Lines 308-311: the scale degrees of the key.
InKey(idx, key_root) ==
    idx \in {key_root, (key_root + 2) % 12, (key_root + 4) % 12, (key_root + 5) % 12,
             (key_root + 7) % 12, (key_root + 9) % 12, (key_root + 11) % 12}

\* Lines 302-312: the chords counted as in key.
InKeyChords(key, progression) ==
    {k \in 1..Len(progression) :
        /\ \E n \in 1..12 : NOTE_NAMES[n] = FirstChar(progression[k].chord)
        /\ InKey(NoteIndex(FirstChar(progression[k].chord)), NoteIndex(key))}

\* Line 314.
TonalStability(key, progression) ==
    IF progression # <<>>
    THEN Fraction(Cardinality(InKeyChords(key, progression)), Len(progression))
    ELSE Fraction(0, 1)

\* The chords of the segments: a major chord on every root, and two minor
\* chords.
HarmonicChords ==
    {<<NOTE_NAMES[n], "major">> : n \in 1..12} \cup {<<"C#", "minor">>, <<"A", "minor">>}

\* The progressions detect_chord_progression can return with these chords:
\* consecutive segments carry different chords.
HarmonicProgressions ==
    UNION {{[k \in 1..n |-> Segment(ctimes(k - 1), 1, c[k], Zero)] :
              c \in {x \in [1..n -> HarmonicChords] :
                        \A k \in 1..(n - 1) : x[k] # x[k + 1]}} :
           n \in 0..MaxHarmonicChords}

\* Lines 295-322: the call, given the key and the progression.
AnalyzeHarmonicStructure ==
    /\ h_pc = "called"
    /\ tonal_stability' = TonalStability(h_key, h_progression)
    /\ h_pc' = "done"
    /\ UNCHANGED <<h_key, h_progression>>
    /\ UNCHANGED h_rest

HarmonicIdle ==
    /\ h_pc = "idle"
    /\ h_key = "C"
    /\ h_progression = <<>>
    /\ tonal_stability = NoConsistency

HarmonicEntry ==
    /\ h_pc = "called"
    /\ h_key \in {NOTE_NAMES[n] : n \in 1..12}
    /\ h_progression \in HarmonicProgressions
    /\ tonal_stability = NoConsistency

NextHarmonic == AnalyzeHarmonicStructure

-----------------------------------------------------------------------------
(* realtime_audio.py: the samples in the audio queue, the rolling buffer and
   the snapshots. The samples are numbered 1, 2, ... in capture order. Each
   action is one call that runs without a thread switch: a queue operation,
   deque.extend and list(deque) are single calls into C. *)

\* The samples a..b in capture order.
Samples(a, b) == [k \in 1..(b - a + 1) |-> a + k - 1]

\* Lines 43, 90: deque(maxlen=buffer_size).extend(chunk) appends the samples
\* of the chunk and drops the oldest samples beyond maxlen.
Extend(buffer, chunk) ==
    LET all == buffer \o chunk
    IN  IF Len(all) <= buffer_size THEN all
        ELSE SubSeq(all, Len(all) - buffer_size + 1, Len(all))

\* Lines 65-78: the stream delivers the next chunk_size samples.
BufCallback ==
    /\ reader_pc # "none"
    /\ captured + chunk_size <= MaxCaptured * chunk_size
    /\ queue_chunks' = Append(queue_chunks, Samples(captured + 1, captured + chunk_size))
    /\ captured' = captured + chunk_size
    /\ UNCHANGED <<reader_pc, proc_pc, audio_chunk, buffer_samples, buffer_array>>
    /\ UNCHANGED buf_rest

\* Line 87: audio_queue.get returns the oldest chunk (with an empty queue the
\* call times out and the loop tests again, which changes nothing).
BufReaderGet ==
    /\ reader_pc = "get"
    /\ queue_chunks # <<>>
    /\ audio_chunk' = Head(queue_chunks)
    /\ queue_chunks' = Tail(queue_chunks)
    /\ reader_pc' = "extend"
    /\ UNCHANGED <<proc_pc, captured, buffer_samples, buffer_array>>
    /\ UNCHANGED buf_rest

\* Line 90.
BufReaderExtend ==
    /\ reader_pc = "extend"
    /\ buffer_samples' = Extend(buffer_samples, audio_chunk)
    /\ audio_chunk' = <<>>
    /\ reader_pc' = "get"
    /\ UNCHANGED <<proc_pc, captured, queue_chunks, buffer_array>>
    /\ UNCHANGED buf_rest

\* Lines 103-107: the interval has passed or not.
BufProcInterval ==
    /\ proc_pc = "test"
    /\ proc_pc' \in {"check", "sleep"}
    /\ UNCHANGED <<reader_pc, captured, queue_chunks, audio_chunk, buffer_samples,
                   buffer_array>>
    /\ UNCHANGED buf_rest

\* Line 110.
BufProcCheck ==
    /\ proc_pc = "check"
    /\ proc_pc' = IF Len(buffer_samples) > chunk_size THEN "copy" ELSE "sleep"
    /\ UNCHANGED <<reader_pc, captured, queue_chunks, audio_chunk, buffer_samples,
                   buffer_array>>
    /\ UNCHANGED buf_rest

\* The copy taken sample by sample with the reader running in between: the
\* first sample is read, a pending extend of the reader takes place, and the
\* other samples are read from the buffer as it is then.
BufProcCopyTorn ==
    /\ proc_pc = "copy"
    /\ LET after == IF reader_pc = "extend" THEN Extend(buffer_samples, audio_chunk)
                     ELSE buffer_samples
       IN  /\ buffer_array' = <<buffer_samples[1]>> \o Tail(after)
           /\ buffer_samples' = after
    /\ audio_chunk' = <<>>
    /\ reader_pc' = "get"
    /\ proc_pc' = "mode"
    /\ UNCHANGED <<captured, queue_chunks>>
    /\ UNCHANGED buf_rest

\* Line 111: buffer_array = np.array(list(self.audio_buffer)), one call.
BufProcCopy ==
    /\ proc_pc = "copy"
    /\ buffer_array' = buffer_samples
    /\ proc_pc' = "mode"
    /\ UNCHANGED <<reader_pc, captured, queue_chunks, audio_chunk, buffer_samples>>
    /\ UNCHANGED buf_rest

\* Lines 114-117: process_monophonic or process_polyphonic on buffer_array.
BufProcMode ==
    /\ proc_pc = "mode"
    /\ proc_pc' = "chord"
    /\ UNCHANGED <<reader_pc, captured, queue_chunks, audio_chunk, buffer_samples,
                   buffer_array>>
    /\ UNCHANGED buf_rest

\* Lines 120-122: process_chord on buffer_array.
BufProcChord ==
    /\ proc_pc = "chord"
    /\ proc_pc' = "sleep"
    /\ UNCHANGED <<reader_pc, captured, queue_chunks, audio_chunk, buffer_samples,
                   buffer_array>>
    /\ UNCHANGED buf_rest

\* Line 128.
BufProcSleep ==
    /\ proc_pc = "sleep"
    /\ proc_pc' = "test"
    /\ UNCHANGED <<reader_pc, captured, queue_chunks, audio_chunk, buffer_samples,
                   buffer_array>>
    /\ UNCHANGED buf_rest

BufIdle ==
    /\ reader_pc = "none"
    /\ proc_pc = "none"
    /\ captured = 0
    /\ queue_chunks = <<>>
    /\ audio_chunk = <<>>
    /\ buffer_samples = <<>>
    /\ buffer_array = <<>>

\* After start(): both workers are at the top of their loops.
BufEntry ==
    /\ reader_pc = "get"
    /\ proc_pc = "test"
    /\ captured = 0
    /\ queue_chunks = <<>>
    /\ audio_chunk = <<>>
    /\ buffer_samples = <<>>
    /\ buffer_array = <<>>

NextBuf ==
    \/ BufCallback
    \/ BufReaderGet
    \/ BufReaderExtend
    \/ BufProcInterval
    \/ BufProcCheck
    \/ BufProcCopy
    \/ BufProcMode
    \/ BufProcChord
    \/ BufProcSleep

-----------------------------------------------------------------------------
(* app.py: start_realtime, stop_realtime, get_realtime_results. A transcriber
   is the number of its creation; app.transcriber is 0 when the attribute
   does not exist. *)

\* Two handler threads.
Slots == {1, 2}

RequestKinds == {"start", "stop", "results"}

\* What a handler can see of the session when its request arrives.
SessionState == [transcriber |-> app_transcriber, created |-> created, live |-> live]

NoRequest ==
    [kind |-> "none", pc |-> "idle", response |-> "none", code |-> 0, made |-> 0,
     before |-> [transcriber |-> 0, created |-> 0, live |-> {}]]

InFlight(s) == requests[s].pc \notin {"idle", "done"}

\* The handler of slot s moves to pc.
Goto(s, pc) == requests' = [requests EXCEPT ![s].pc = pc]

\* The handler of slot s returns.
Return(s, response, code) ==
    requests' = [requests EXCEPT ![s].pc = "done", ![s].response = response,
                                 ![s].code = code]

\* A request of the kind arrives at slot s.
Begin(s, kind) ==
    /\ ~InFlight(s)
    /\ kind = "start" => created < MaxSessions
    /\ requests' = [requests EXCEPT ![s] =
                       [kind |-> kind, pc |-> "check", response |-> "none", code |-> 0,
                        made |-> 0, before |-> SessionState]]
    /\ raced' = raced \ {s}
    /\ UNCHANGED <<app_transcriber, created, live>>
    /\ UNCHANGED app_rest

\* A request arrives while no other request is being handled.
BeginAlone(s, kind) ==
    /\ \A t \in Slots : ~InFlight(t)
    /\ Begin(s, kind)

\* Lines 201, 205-206: hasattr(app, 'transcriber') in start_realtime. The
\* check races when another start request has passed it and not yet created
\* its transcriber.
StartCheck(s) ==
    /\ requests[s].kind = "start" /\ requests[s].pc = "check"
    /\ IF app_transcriber = 0
       THEN /\ Goto(s, "create")
            /\ raced' =
                  IF \E t \in Slots \ {s} :
                         requests[t].kind = "start" /\ requests[t].pc = "create"
                  THEN raced \cup {s} \cup {t \in Slots \ {s} :
                                        requests[t].kind = "start" /\ requests[t].pc = "create"}
                  ELSE raced
       ELSE /\ Return(s, "already_running", 400)
            /\ UNCHANGED raced
    /\ UNCHANGED <<app_transcriber, created, live>>
    /\ UNCHANGED app_rest

\* Line 202: app.transcriber = RealtimeTranscriber(transcription_mode=mode).
StartCreate(s) ==
    /\ requests[s].kind = "start" /\ requests[s].pc = "create"
    /\ created' = created + 1
    /\ app_transcriber' = created + 1
    /\ requests' = [requests EXCEPT ![s].pc = "start", ![s].made = created + 1]
    /\ UNCHANGED <<live, raced>>
    /\ UNCHANGED app_rest

\* Lines 203-204: app.transcriber.start() on the transcriber registered at
\* that moment (AttributeError, answered 500, when there is none).
StartStart(s) ==
    /\ requests[s].kind = "start" /\ requests[s].pc = "start"
    /\ IF app_transcriber # 0
       THEN /\ live' = live \cup {app_transcriber}
            /\ Return(s, "started", 200)
       ELSE /\ UNCHANGED live
            /\ Return(s, "error", 500)
    /\ UNCHANGED <<app_transcriber, created, raced>>
    /\ UNCHANGED app_rest

\* Lines 211, 215-216: hasattr(app, 'transcriber') in stop_realtime.
StopCheck(s) ==
    /\ requests[s].kind = "stop" /\ requests[s].pc = "check"
    /\ IF app_transcriber # 0 THEN Goto(s, "stop") ELSE Return(s, "not_running", 400)
    /\ UNCHANGED <<app_transcriber, created, live, raced>>
    /\ UNCHANGED app_rest

\* Line 212: app.transcriber.stop().
StopCall(s) ==
    /\ requests[s].kind = "stop" /\ requests[s].pc = "stop"
    /\ IF app_transcriber # 0
       THEN /\ live' = live \ {app_transcriber}
            /\ Goto(s, "del")
       ELSE /\ UNCHANGED live
            /\ Return(s, "error", 500)
    /\ UNCHANGED <<app_transcriber, created, raced>>
    /\ UNCHANGED app_rest

\* The end of stop_realtime without the del statement.
StopKeepRegistered(s) ==
    /\ requests[s].kind = "stop" /\ requests[s].pc = "del"
    /\ Return(s, "stopped", 200)
    /\ UNCHANGED <<app_transcriber, created, live, raced>>
    /\ UNCHANGED app_rest

\* Lines 213-214: del app.transcriber.
StopUnregister(s) ==
    /\ requests[s].kind = "stop" /\ requests[s].pc = "del"
    /\ IF app_transcriber # 0
       THEN /\ app_transcriber' = 0
            /\ Return(s, "stopped", 200)
       ELSE /\ UNCHANGED app_transcriber
            /\ Return(s, "error", 500)
    /\ UNCHANGED <<created, live, raced>>
    /\ UNCHANGED app_rest

\* Lines 221, 232-233: hasattr(app, 'transcriber') in get_realtime_results.
ResultsCheck(s) ==
    /\ requests[s].kind = "results" /\ requests[s].pc = "check"
    /\ IF app_transcriber # 0 THEN Goto(s, "get") ELSE Return(s, "not_running", 400)
    /\ UNCHANGED <<app_transcriber, created, live, raced>>
    /\ UNCHANGED app_rest

\* Lines 222-231: up to 10 calls of app.transcriber.get_results.
ResultsGet(s) ==
    /\ requests[s].kind = "results" /\ requests[s].pc = "get"
    /\ IF app_transcriber # 0 THEN Return(s, "results", 200) ELSE Return(s, "error", 500)
    /\ UNCHANGED <<app_transcriber, created, live, raced>>
    /\ UNCHANGED app_rest

AppIdle ==
    /\ app_transcriber = 0
    /\ created = 0
    /\ live = {}
    /\ requests = [s \in {} |-> NoRequest]
    /\ raced = {}

\* The app after import: no transcriber, no request.
AppEntry ==
    /\ app_transcriber = 0
    /\ created = 0
    /\ live = {}
    /\ requests = [s \in Slots |-> NoRequest]
    /\ raced = {}

HandlerStep(s) ==
    \/ StartCheck(s)
    \/ StartCreate(s)
    \/ StartStart(s)
    \/ StopCheck(s)
    \/ StopCall(s)
    \/ StopUnregister(s)
    \/ ResultsCheck(s)
    \/ ResultsGet(s)

\* The requests handled one at a time.
NextAppSequential ==
    \E s \in Slots :
        \/ \E kind \in RequestKinds : BeginAlone(s, kind)
        \/ HandlerStep(s)

\* The requests handled by concurrent threads.
NextApp ==
    \E s \in Slots :
        \/ \E kind \in RequestKinds : Begin(s, kind)
        \/ HandlerStep(s)

-----------------------------------------------------------------------------
(* midi_controller.py: MIDIController.process_midi_message *)

\* The messages: note_on with velocity 0 and above 0 on two notes, note_off
\* for them on another channel, a control change, a pitch bend and a program
\* change.
NoteMessages ==
    [type : {"note_on"}, note : {60, 64}, velocity : {0, 64}, channel : {0}]
    \cup [type : {"note_off"}, note : {60, 64}, velocity : {0}, channel : {1}]

OtherMessages ==
    {[type |-> "control_change", control |-> 1, value |-> 64, channel |-> 0],
     [type |-> "pitchwheel", pitch |-> 100, channel |-> 0],
     [type |-> "program_change", program |-> 5, channel |-> 0]}

Messages == NoteMessages \cup OtherMessages

\* Line 117 and line 119: the two tests on a message.
IsNoteOn(msg) == msg.type = "note_on" /\ msg.velocity > 0

IsNoteOff(msg) == msg.type = "note_off" \/ (msg.type = "note_on" /\ msg.velocity = 0)

\* d[key] = value on a dict.
SetItem(d, key, value) ==
    [k \in DOMAIN d \cup {key} |-> IF k = key THEN value ELSE d[k]]

\* del d[key] on a dict.
DelItem(d, key) == [k \in DOMAIN d \ {key} |-> d[k]]

EmptyDict == [k \in {} |-> 0]

\* Lines 128-144 (the time of the note is left out).
handle_note_on(msg) ==
    /\ pressed_notes' = SetItem(pressed_notes, msg.note,
                                [velocity |-> msg.velocity, channel |-> msg.channel])
    /\ note_on_calls' = note_on_calls + 1
    /\ UNCHANGED <<note_off_calls, control_values, pitch_bend, current_program>>

\* handle_note_off without the test of line 150: the callbacks are called for
\* every message.
handle_note_off_untested(msg) ==
    /\ pressed_notes' = DelItem(pressed_notes, msg.note)
    /\ note_off_calls' = note_off_calls + 1
    /\ UNCHANGED <<note_on_calls, control_values, pitch_bend, current_program>>

\* Lines 146-161.
handle_note_off(msg) ==
    /\ IF msg.note \in DOMAIN pressed_notes
       THEN /\ pressed_notes' = DelItem(pressed_notes, msg.note)
            /\ note_off_calls' = note_off_calls + 1
       ELSE UNCHANGED <<pressed_notes, note_off_calls>>
    /\ UNCHANGED <<note_on_calls, control_values, pitch_bend, current_program>>

\* Lines 163-171.
handle_control_change(msg) ==
    /\ control_values' = SetItem(control_values, msg.control, msg.value)
    /\ UNCHANGED <<pressed_notes, note_on_calls, note_off_calls, pitch_bend,
                   current_program>>

\* Lines 187-192.
handle_pitch_bend(msg) ==
    /\ pitch_bend' = msg.pitch
    /\ UNCHANGED <<pressed_notes, note_on_calls, note_off_calls, control_values,
                   current_program>>

\* Lines 194-199.
handle_program_change(msg) ==
    /\ current_program' = msg.program
    /\ UNCHANGED <<pressed_notes, note_on_calls, note_off_calls, control_values,
                   pitch_bend>>

\* Lines 104-126, with one callback registered for note on and one for note
\* off.
ProcessMidiMessage ==
    /\ mc_pc = "ready"
    /\ Len(event_queue) < MaxMessages
    /\ \E msg \in Messages :
         /\ event_queue' = Append(event_queue, msg)
         /\ recorded_events' =
               IF is_recording THEN Append(recorded_events, msg) ELSE recorded_events
         /\ IF IsNoteOn(msg) THEN handle_note_on(msg)
            ELSE IF IsNoteOff(msg) THEN handle_note_off(msg)
            ELSE IF msg.type = "control_change" THEN handle_control_change(msg)
            ELSE IF msg.type = "pitchwheel" THEN handle_pitch_bend(msg)
            ELSE handle_program_change(msg)
    /\ UNCHANGED <<mc_pc, is_recording>>
    /\ UNCHANGED mc_rest

\* Lines 230-236.
StartRecording ==
    /\ mc_pc = "ready"
    /\ ~is_recording
    /\ is_recording' = TRUE
    /\ recorded_events' = <<>>
    /\ UNCHANGED <<mc_pc, pressed_notes, control_values, pitch_bend, current_program,
                   event_queue, note_on_calls, note_off_calls>>
    /\ UNCHANGED mc_rest

\* Lines 239-245.
StopRecording ==
    /\ mc_pc = "ready"
    /\ is_recording
    /\ is_recording' = FALSE
    /\ UNCHANGED <<mc_pc, pressed_notes, control_values, pitch_bend, current_program,
                   event_queue, recorded_events, note_on_calls, note_off_calls>>
    /\ UNCHANGED mc_rest

\* Lines 282-286: the keys of the dict.
get_active_notes == DOMAIN pressed_notes

ControllerIdle ==
    /\ mc_pc = "idle"
    /\ pressed_notes = EmptyDict
    /\ control_values = EmptyDict
    /\ pitch_bend = 0
    /\ current_program = 0
    /\ event_queue = <<>>
    /\ is_recording = FALSE
    /\ recorded_events = <<>>
    /\ note_on_calls = 0
    /\ note_off_calls = 0

\* Lines 18-48: the controller after construction.
ControllerEntry ==
    /\ mc_pc = "ready"
    /\ pressed_notes = EmptyDict
    /\ control_values = EmptyDict
    /\ pitch_bend = 0
    /\ current_program = 0
    /\ event_queue = <<>>
    /\ is_recording = FALSE
    /\ recorded_events = <<>>
    /\ note_on_calls = 0
    /\ note_off_calls = 0

NextController == ProcessMidiMessage \/ StartRecording \/ StopRecording

-----------------------------------------------------------------------------
(* Specifications *)

NextMono == MonoStart \/ FirstPassFrame \/ SecondPassFrame \/ MonoFinish

\* The monophonic tracker without tempo analysis (no quantization).
InitMono ==
    /\ MonoEntry({FALSE}, BOOLEAN, 1..MaxMinDuration, 0..MaxFrames)
    /\ PolyIdle /\ ChordIdle /\ QuantIdle
    /\ KeyIdle /\ DetIdle /\ RtIdle /\ WriterIdle /\ KeySigIdle /\ HarmonicIdle /\ BufIdle /\ AppIdle /\ ControllerIdle

SpecMono == InitMono /\ [][NextMono]_vars

\* The monophonic tracker with tempo analysis and rhythm quantization.
InitMonoQ ==
    /\ MonoEntry({TRUE}, {TRUE}, {1}, 0..MaxFrames)
    /\ PolyIdle /\ ChordIdle /\ QuantIdle
    /\ KeyIdle /\ DetIdle /\ RtIdle /\ WriterIdle /\ KeySigIdle /\ HarmonicIdle /\ BufIdle /\ AppIdle /\ ControllerIdle

SpecMonoQ == InitMonoQ /\ [][NextMono]_vars

\* The polyphonic tracker on a narrow pitch window.
InitPoly ==
    /\ PolyEntry(PitchWindow, 1..MaxPolyphony, {1}, 0..MaxPolyFrames)
    /\ MonoIdle /\ ChordIdle /\ QuantIdle
    /\ KeyIdle /\ DetIdle /\ RtIdle /\ WriterIdle /\ KeySigIdle /\ HarmonicIdle /\ BufIdle /\ AppIdle /\ ControllerIdle

SpecPoly == InitPoly /\ [][NextPoly]_vars

\* The polyphonic tracker on a window wide enough for three concurrent peaks.
InitPolyChord ==
    /\ PolyEntry(ChordWindow, {MaxPolyphony + 1}, 1..MaxMinDuration, 0..MaxChordFrames)
    /\ MonoIdle /\ ChordIdle /\ QuantIdle
    /\ KeyIdle /\ DetIdle /\ RtIdle /\ WriterIdle /\ KeySigIdle /\ HarmonicIdle /\ BufIdle /\ AppIdle /\ ControllerIdle

SpecPolyChord == InitPolyChord /\ [][NextPoly]_vars

\* The polyphonic tracker on two tones of graded salience.
InitVelocity ==
    /\ PolyEntry(VelocityWindow, {MaxPolyphony}, 1..MaxMinDuration, 0..MaxPolyFrames)
    /\ MonoIdle /\ ChordIdle /\ QuantIdle
    /\ KeyIdle /\ DetIdle /\ RtIdle /\ WriterIdle /\ KeySigIdle /\ HarmonicIdle /\ BufIdle /\ AppIdle /\ ControllerIdle

SpecVelocity == InitVelocity /\ [][NextPoly]_vars

InitQuant ==
    /\ QuantEntry
    /\ MonoIdle /\ PolyIdle /\ ChordIdle
    /\ KeyIdle /\ DetIdle /\ RtIdle /\ WriterIdle /\ KeySigIdle /\ HarmonicIdle /\ BufIdle /\ AppIdle /\ ControllerIdle

SpecQuant == InitQuant /\ [][NextQuant]_vars

InitChord ==
    /\ ChordEntry
    /\ MonoIdle /\ PolyIdle /\ QuantIdle
    /\ KeyIdle /\ DetIdle /\ RtIdle /\ WriterIdle /\ KeySigIdle /\ HarmonicIdle /\ BufIdle /\ AppIdle /\ ControllerIdle

SpecChord == InitChord /\ [][NextChord]_vars

\* detect_key_krumhansl on the rotations of the two profiles, on the chord
\* templates and on uniform vectors.
KeyChromas ==
    {Roll(MAJOR_PROFILE, k) : k \in 0..11} \cup {Roll(MINOR_PROFILE, k) : k \in 0..11}
    \cup {Roll(CHORD_TEMPLATES[t].template, k) : t \in 1..Len(CHORD_TEMPLATES), k \in 0..11}
    \cup UniformChromas

InitKey ==
    /\ KeyEntry(KeyChromas)
    /\ MonoIdle /\ PolyIdle /\ ChordIdle /\ QuantIdle /\ DetIdle /\ RtIdle /\ WriterIdle /\ KeySigIdle /\ HarmonicIdle /\ BufIdle /\ AppIdle /\ ControllerIdle

SpecKey == InitKey /\ [][NextKey]_vars

\* detect_chord on sparse and uniform chroma vectors.
InitDetectChord ==
    /\ DetEntry(SparseChromas \cup UniformChromas)
    /\ MonoIdle /\ PolyIdle /\ ChordIdle /\ QuantIdle /\ KeyIdle /\ RtIdle /\ WriterIdle /\ KeySigIdle /\ HarmonicIdle /\ BufIdle /\ AppIdle /\ ControllerIdle

SpecDetectChord == InitDetectChord /\ [][NextDet]_vars

\* The chroma vectors with equal energy v on exactly the pitch classes of
\* template t transposed to root r.
Transposed(t, r, v) ==
    [pc \in PitchClasses |-> v * CHORD_TEMPLATES[t].template[(pc - r + 12) % 12]]

TemplateChromas ==
    {Transposed(t, r, v) : t \in 1..Len(CHORD_TEMPLATES), r \in PitchClasses,
                           v \in 1..MaxChromaLevel}

\* detect_chord on every transposition of every template.
InitTemplates ==
    /\ DetEntry(TemplateChromas)
    /\ MonoIdle /\ PolyIdle /\ ChordIdle /\ QuantIdle /\ KeyIdle /\ RtIdle /\ WriterIdle /\ KeySigIdle /\ HarmonicIdle /\ BufIdle /\ AppIdle /\ ControllerIdle

SpecTemplates == InitTemplates /\ [][NextDet]_vars

\* detect_chord on its own, and inside detect_chord_progression.
InitAcceptance ==
    \/ InitDetectChord
    \/ InitChord

NextAcceptance == NextDet \/ NextChord

SpecAcceptance == InitAcceptance /\ [][NextAcceptance]_vars

\* quantize_to_grid on its own, and inside the monophonic tracker.
InitClamp ==
    \/ InitQuant
    \/ /\ MonoEntry({TRUE}, {TRUE}, {1}, 0..(MaxFrames - 1))
       /\ PolyIdle /\ ChordIdle /\ QuantIdle
       /\ KeyIdle /\ DetIdle /\ RtIdle /\ WriterIdle /\ KeySigIdle /\ HarmonicIdle /\ BufIdle /\ AppIdle /\ ControllerIdle

NextClamp == NextQuant \/ NextMono

SpecClamp == InitClamp /\ [][NextClamp]_vars

\* quantize_to_grid on its own, and the monophonic tracker with and without
\* tempo analysis.
InitDegenerate ==
    \/ InitQuant
    \/ /\ MonoEntry(BOOLEAN, {TRUE}, {1}, 0..(MaxFrames - 1))
       /\ PolyIdle /\ ChordIdle /\ QuantIdle
       /\ KeyIdle /\ DetIdle /\ RtIdle /\ WriterIdle /\ KeySigIdle /\ HarmonicIdle /\ BufIdle /\ AppIdle /\ ControllerIdle

SpecDegenerate == InitDegenerate /\ [][NextClamp]_vars

\* One live session of the RealtimeTranscriber. The workers are threads of
\* the operating system and stop() runs on the main thread: each of them
\* keeps taking steps while it can.
InitRt ==
    /\ RtEntry
    /\ MonoIdle /\ PolyIdle /\ ChordIdle /\ QuantIdle /\ KeyIdle /\ DetIdle /\ WriterIdle /\ KeySigIdle /\ HarmonicIdle /\ BufIdle /\ AppIdle /\ ControllerIdle

SpecRt ==
    /\ InitRt /\ [][NextRt]_vars
    /\ WF_vars(ReaderStep) /\ WF_vars(ProcStep) /\ WF_vars(StopStep)

\* One call of one of the six writers.
InitWriters ==
    /\ WriterEntry
    /\ MonoIdle /\ PolyIdle /\ ChordIdle /\ QuantIdle /\ KeyIdle /\ DetIdle /\ RtIdle /\ KeySigIdle /\ HarmonicIdle /\ BufIdle /\ AppIdle /\ ControllerIdle

SpecWriters == InitWriters /\ [][NextWriters]_vars

\* detect_key_signature on every chroma matrix of up to MaxSigFrames frames.
InitKeySig ==
    /\ KeySigEntry
    /\ MonoIdle /\ PolyIdle /\ ChordIdle /\ QuantIdle /\ KeyIdle /\ DetIdle /\ RtIdle /\ WriterIdle /\ HarmonicIdle /\ BufIdle /\ AppIdle /\ ControllerIdle

SpecKeySig == InitKeySig /\ [][NextKeySig]_vars

\* analyze_harmonic_structure on every key and every progression of up to
\* MaxHarmonicChords segments.
InitHarmonic ==
    /\ HarmonicEntry
    /\ MonoIdle /\ PolyIdle /\ ChordIdle /\ QuantIdle /\ KeyIdle /\ DetIdle /\ RtIdle /\ WriterIdle
    /\ KeySigIdle /\ BufIdle /\ AppIdle /\ ControllerIdle

SpecHarmonic == InitHarmonic /\ [][NextHarmonic]_vars

\* The reader worker and the processing worker of a running session.
InitBuf ==
    /\ BufEntry
    /\ MonoIdle /\ PolyIdle /\ ChordIdle /\ QuantIdle /\ KeyIdle /\ DetIdle /\ RtIdle /\ WriterIdle
    /\ KeySigIdle /\ HarmonicIdle /\ AppIdle /\ ControllerIdle

SpecBuf == InitBuf /\ [][NextBuf]_vars

\* The live-session routes of the app, one request at a time and with
\* concurrent requests.
InitApp ==
    /\ AppEntry
    /\ MonoIdle /\ PolyIdle /\ ChordIdle /\ QuantIdle /\ KeyIdle /\ DetIdle /\ RtIdle /\ WriterIdle
    /\ KeySigIdle /\ HarmonicIdle /\ BufIdle /\ ControllerIdle

SpecAppSequential == InitApp /\ [][NextAppSequential]_vars

SpecApp == InitApp /\ [][NextApp]_vars

\* A controller that processes up to MaxMessages messages.
InitController ==
    /\ ControllerEntry
    /\ MonoIdle /\ PolyIdle /\ ChordIdle /\ QuantIdle /\ KeyIdle /\ DetIdle /\ RtIdle /\ WriterIdle
    /\ KeySigIdle /\ HarmonicIdle /\ BufIdle /\ AppIdle

SpecController == InitController /\ [][NextController]_vars

\* The three producers of ordered sequences, one of them per behaviour.
InitOrdered ==
    /\ \/ /\ MonoEntry({TRUE}, {TRUE}, {1}, 0..(MaxFrames - 1))
          /\ PolyIdle /\ ChordIdle /\ QuantIdle
       \/ /\ PolyEntry(PitchWindow, {MaxPolyphony}, {1}, 0..MaxPolyFrames)
          /\ MonoIdle /\ ChordIdle /\ QuantIdle
       \/ /\ ChordEntry
          /\ MonoIdle /\ PolyIdle /\ QuantIdle
    /\ KeyIdle /\ DetIdle /\ RtIdle /\ WriterIdle /\ KeySigIdle /\ HarmonicIdle /\ BufIdle /\ AppIdle /\ ControllerIdle

NextOrdered == NextMono \/ NextPoly \/ NextChord

SpecOrdered == InitOrdered /\ [][NextOrdered]_vars

-----------------------------------------------------------------------------
(* Claims *)

AllUnvoiced == \A k \in 1..Len(frame_voiced) : ~frame_voiced[k]

\* C1: Monophonic tracker, silent input. When every frame of the input is
\* unvoiced (RMS below the silence threshold, or maximum magnitude below the
\* magnitude threshold, or no positive frequency), the tracker returns zero
\* notes.
C1_SilentInputNoNotes ==
    (m_pc = "done" /\ AllUnvoiced) => (notes = <<>> /\ cleaned_notes = <<>>)

C1_Witness ==
    /\ m_pc = "done"
    /\ n_frames >= 3
    /\ Len(frame_voiced) = n_frames
    /\ AllUnvoiced
    /\ cleaned_notes = <<>>

\* C2: Polyphonic tracker, silent input. When the salience surface is zero
\* in every frame and pitch, no peak is kept in any frame, no pitch ever
\* becomes active and the tracker returns zero notes.
C2_SilentSalienceNoNotes ==
    salience_silent =>
        /\ detected_notes = <<>>
        /\ \A f \in 1..Len(peaks_history) : peaks_history[f] = {}
        /\ DOMAIN active_notes = {}
        /\ active_keys = <<>>

C2_Witness ==
    /\ p_pc = "done"
    /\ p_n_frames >= 3
    /\ Len(peaks_history) = p_n_frames
    /\ salience_silent
    /\ detected_notes = <<>>

ConstantTone(p) ==
    /\ n_frames >= 1
    /\ Len(detected_pitches) = n_frames
    /\ \A k \in 1..n_frames : frame_voiced[k] /\ detected_pitches[k] = p

\* C3: Monophonic tracker, constant tone. When every frame is voiced with
\* the same detected pitch p, the time from the first to the last frame is
\* at least min_note_duration, and no quantization applies, exactly one note
\* is returned: its pitch is p, it starts at the first frame time and its
\* duration is the length of the voiced span (n_frames hops) up to one hop.
C3_ConstantToneOneNote ==
    \A p \in MidiValues \ {0} :
        (/\ m_pc = "done"
         /\ ConstantTone(p)
         /\ ~(quantize /\ beats_detected)
         /\ times(n_frames - 1) - times(0) >= min_note_duration * den)
        => /\ Len(cleaned_notes) = 1
           /\ cleaned_notes[1].pitch = p
           /\ cleaned_notes[1].start = times(0)
           /\ cleaned_notes[1].duration <= n_frames * den
           /\ cleaned_notes[1].duration >= n_frames * den - den

C3_Witness ==
    /\ m_pc = "done"
    /\ n_frames >= 3
    /\ ConstantTone(60)
    /\ min_note_duration = 2
    /\ Len(cleaned_notes) = 1
    /\ cleaned_notes[1].duration = 2 * den

SameTriad(S) ==
    /\ Cardinality(S) = 3
    /\ p_n_frames >= 1
    /\ Len(peaks_history) = p_n_frames
    /\ \A f \in 1..p_n_frames : peaks_history[f] = S

ThreeConcurrentNotes(S) ==
    /\ Len(detected_notes) = 3
    /\ {detected_notes[k].pitch : k \in 1..3} = S
    /\ \A k \in 1..3 :
         /\ detected_notes[k].start = detected_notes[1].start
         /\ detected_notes[k].duration = detected_notes[1].duration
         /\ detected_notes[k].duration > 0

\* C4 as stated: whenever the kept peaks of every frame are the same three
\* pitches, exactly three notes are emitted, one per pitch, with the same
\* start and the same duration.
C4_SustainedChordAsStated ==
    \A S \in SUBSET Pitches(midi_pitches) :
        (p_pc = "done" /\ SameTriad(S)) => ThreeConcurrentNotes(S)

\* C4, amended: whenever the kept peaks of every frame are the same three
\* pitches and the time from the first to the last frame is at least
\* min_duration, exactly three notes are emitted, one per pitch, with the
\* same start (the first frame time) and the same positive duration.
C4_SustainedChord ==
    \A S \in SUBSET Pitches(midi_pitches) :
        (/\ p_pc = "done"
         /\ SameTriad(S)
         /\ ptimes(p_n_frames - 1) - ptimes(0) >= min_duration)
        => /\ ThreeConcurrentNotes(S)
           /\ detected_notes[1].start = ptimes(0)

C4_Witness ==
    /\ p_pc = "done"
    /\ p_n_frames >= 3
    /\ SameTriad(TriadPitches)
    /\ min_duration = 2
    /\ ThreeConcurrentNotes(TriadPitches)

\* C5: quantization is idempotent. For every strictly increasing beat
\* sequence with at least 2 beats and every time t >= 0, quantizing the
\* quantized time again gives the same time.
C5_QuantizeIdempotent ==
    (q_pc = "twice" /\ Len(q_beats) >= 2 /\ q_time >= 0) => q_twice = q_once

NoteEnd(n) == n.start + n.duration

\* C6: monophonic exclusivity. In the returned sequence, with or without
\* quantization, every note ends no later than the next note starts.
C6_NoOverlap ==
    m_pc = "done" =>
        \A k \in 1..(Len(cleaned_notes) - 1) :
            NoteEnd(cleaned_notes[k]) <= cleaned_notes[k + 1].start

\* Quantization made a note end after the next one starts, and the overlap
\* pass trimmed it.
C6_Witness ==
    /\ m_pc = "done"
    /\ quantize /\ beats_detected
    /\ \E k \in 1..(Len(notes) - 1) :
         /\ NoteEnd(notes[k]) > notes[k + 1].start
         /\ NoteEnd(cleaned_notes[k]) = cleaned_notes[k + 1].start

\* C7: note validity. Every note of the returned monophonic sequence, also
\* with rhythm quantization and after overlap trimming, has duration > 0 and
\* start >= 0.
C7_PositiveDurations ==
    m_pc = "done" =>
        \A k \in 1..Len(cleaned_notes) :
            cleaned_notes[k].duration > 0 /\ cleaned_notes[k].start >= 0

OrderedByStart(s) == \A k \in 1..(Len(s) - 1) : s[k].start <= s[k + 1].start

\* C8: every output sequence is ordered by start time: the notes of the
\* monophonic tracker (also after quantization), the notes of the polyphonic
\* tracker and the chord segments of detect_chord_progression.
C8_OrderedByStart ==
    /\ m_pc = "done" => OrderedByStart(cleaned_notes)
    /\ p_pc = "done" => OrderedByStart(detected_notes)
    /\ c_pc = "done" => OrderedByStart(smoothed_progression)

\* A polyphonic note that starts earlier and ends later than another one:
\* it was appended after it and the sort moved it in front.
C8_Witness ==
    /\ p_pc = "done"
    /\ \E j, k \in 1..Len(detected_notes) :
         /\ j < k
         /\ detected_notes[j].start < detected_notes[k].start
         /\ NoteEnd(detected_notes[j]) > NoteEnd(detected_notes[k])

\* The notes that sound at time t.
Sounding(t) ==
    {k \in 1..Len(detected_notes) :
        detected_notes[k].start <= t /\ t < NoteEnd(detected_notes[k])}

\* C9: polyphony bound. In every frame at most max_polyphony pitches are
\* active, and at every instant at most max_polyphony returned notes sound.
C9_PolyphonyBound ==
    /\ \A f \in 1..Len(peaks_history) : Cardinality(peaks_history[f]) <= max_polyphony
    /\ p_pc = "done" =>
         \A t \in 0..p_n_frames : Cardinality(Sounding(t)) <= max_polyphony

C9_Witness ==
    /\ p_pc = "done"
    /\ peaks_dropped
    /\ \E t \in 0..p_n_frames : Cardinality(Sounding(t)) = max_polyphony

\* C10: no duplicates in the polyphonic output. No two returned notes have
\* the same (start, pitch), and the notes of one pitch do not overlap.
C10_NoDuplicates ==
    p_pc = "done" =>
        \A j, k \in 1..Len(detected_notes) :
            (j < k /\ detected_notes[j].pitch = detected_notes[k].pitch)
            => /\ detected_notes[j].start # detected_notes[k].start
               /\ \/ NoteEnd(detected_notes[j]) <= detected_notes[k].start
                  \/ NoteEnd(detected_notes[k]) <= detected_notes[j].start

C10_Witness ==
    /\ p_pc = "done"
    /\ \E j, k \in 1..Len(detected_notes) :
         /\ j < k
         /\ detected_notes[j].pitch = detected_notes[k].pitch

\* C11: polyphonic velocity range. Every note of the polyphonic tracker,
\* closed mid-sequence or at the end, has a velocity in 20..127.
C11_VelocityRange ==
    \A k \in 1..Len(detected_notes) :
        detected_notes[k].velocity \in velocity_min..velocity_max

\* A note closed mid-sequence and a note closed at the end, one of them with
\* a velocity strictly inside the range.
C11_Witness ==
    /\ p_pc = "done"
    /\ \E j, k \in 1..Len(detected_notes) :
         /\ NoteEnd(detected_notes[j]) < ptimes(p_n_frames - 1)
         /\ NoteEnd(detected_notes[k]) = ptimes(p_n_frames - 1)
         /\ detected_notes[k].velocity > velocity_min
         /\ detected_notes[k].velocity < velocity_max

\* C12: key detection on the reference profile. For the chroma vector equal
\* to the major profile with tonic C at index 0, detect_key_krumhansl
\* returns tonic C, mode major, with correlation 1, and no candidate has a
\* greater correlation.
C12_KeyOfMajorProfile ==
    (k_pc = "done" /\ chroma_vector = MAJOR_PROFILE) =>
        /\ best_match.key = "C"
        /\ best_match.mode = "major"
        /\ IsOne(best_match.correlation)
        /\ Len(correlations) = 24
        /\ \A k \in 1..Len(correlations) :
             ~CorrGreater(correlations[k].correlation, best_match.correlation)

C12_Witness ==
    /\ k_pc = "done"
    /\ chroma_vector = MAJOR_PROFILE
    /\ best_match.key = "C"
    /\ best_match.mode = "major"

CMajorChroma == [pc \in 0..11 |-> IF pc \in {0, 4, 7} THEN 1 ELSE 0]

\* C13: chord detection on the C-major template. For a chroma vector with
\* equal energy on exactly the pitch classes C, E, G, detect_chord returns
\* root C, type major, with similarity 1.
C13_ChordOfCMajorTemplate ==
    \A v \in 1..MaxChromaLevel :
        (d_pc = "returned" /\ chroma_frame = [pc \in 0..11 |-> v * CMajorChroma[pc]]) =>
            /\ chord_match.root = "C"
            /\ chord_match.chord_type = "major"
            /\ SimIsOne(chord_match.confidence)

C13_Witness ==
    /\ d_pc = "returned"
    /\ chroma_frame = CMajorChroma
    /\ chord_match.root = "C"
    /\ chord_match.chord_type = "major"

\* C14: chord detection on uniform chroma. For a chroma vector whose 12
\* entries are equal and positive, the similarity of every (root, template)
\* pair is below 0.6 and detect_chord returns no chord.
C14_UniformChromaNoChord ==
    (d_pc = "returned" /\ chroma_frame \in UniformChromas) =>
        /\ chord_match = NoChord
        /\ \A k \in DOMAIN Correlations(chroma_frame) :
             ~SimAtLeast(Correlations(chroma_frame)[k],
                         chord_threshold_num, chord_threshold_den)

C14_Witness ==
    /\ d_pc = "returned"
    /\ chroma_frame \in UniformChromas
    /\ chord_match = NoChord

\* The best similarity over the 12 roots and 7 templates reaches 0.6.
BestReachesThreshold(x) ==
    /\ Total(x, 0) > 0
    /\ LET c == BestChord(x).confidence
       IN  chord_threshold_den * chord_threshold_den * c.dot * c.dot
               >= chord_threshold_num * chord_threshold_num * c.tt * c.xx

AcceptedSegmentChromas == {x \in SegmentChromas : BestReachesThreshold(x)}

AcceptedSegments == {k \in 1..Len(segment_chromas) : segment_chromas[k] \in AcceptedSegmentChromas}

\* C15: chord acceptance threshold. detect_chord returns its best match
\* exactly when the best similarity is >= 0.6; otherwise, and for a chroma
\* vector of sum zero, it returns (None, None, 0); and the chord progression
\* has one entry for each segment whose chord is accepted and none for the
\* other segments.
C15_AcceptanceThreshold ==
    /\ d_pc = "returned" =>
         IF BestReachesThreshold(chroma_frame)
         THEN chord_match = BestChord(chroma_frame)
         ELSE chord_match = NoChord
    /\ c_pc # "idle" =>
         /\ Len(chord_progression) = Cardinality(AcceptedSegments)
         /\ \A k \in AcceptedSegments :
              \E e \in 1..Len(chord_progression) :
                  chord_progression[e].time = ctimes((k - 1) * segment_frames)
         /\ \A e \in 1..Len(chord_progression) :
              \E k \in AcceptedSegments :
                  chord_progression[e].time = ctimes((k - 1) * segment_frames)

\* A progression with a silent segment, a segment below the threshold and
\* an accepted segment.
C15_Witness ==
    /\ c_pc = "done"
    /\ \E j, k, l \in 1..Len(segment_chromas) :
         /\ Total(segment_chromas[j], 0) = 0
         /\ Total(segment_chromas[k], 0) > 0
         /\ k \notin AcceptedSegments
         /\ l \in AcceptedSegments
    /\ Len(chord_progression) < Len(segment_chromas)
    /\ Len(chord_progression) > 0

\* The number of sub-segments, and the duration of sub-segment k (1-based):
\* segment_frames hops, or what is left of the signal for the last one.
SubSegments == Len(segment_chromas)

SubSegmentDuration(k) ==
    IF k * segment_frames <= c_n_frames THEN segment_frames
    ELSE c_n_frames - (k - 1) * segment_frames

SubSegmentLabel(k) == SegmentLabels[segment_chromas[k]]

\* Sub-segments k and k + 1 carry the same chord and their neighbours, if
\* any, carry another chord.
MergedPair(k) ==
    /\ k + 1 <= SubSegments
    /\ SubSegmentLabel(k) # NoChord
    /\ ChordName(SubSegmentLabel(k + 1)) = ChordName(SubSegmentLabel(k))
    /\ k > 1 =>
         /\ SubSegmentLabel(k - 1) # NoChord
         /\ ChordName(SubSegmentLabel(k - 1)) # ChordName(SubSegmentLabel(k))
    /\ k + 2 <= SubSegments =>
         /\ SubSegmentLabel(k + 2) # NoChord
         /\ ChordName(SubSegmentLabel(k + 2)) # ChordName(SubSegmentLabel(k))

\* C16: chord merge duration. When two adjacent sub-segments receive the
\* same label, one chord segment is emitted for them, and its duration is
\* the sum of the durations of the two sub-segments, also when they are the
\* last sub-segments of the signal.
C16_MergedDuration ==
    c_pc = "done" =>
        \A k \in 1..SubSegments :
            MergedPair(k) =>
                \E e \in 1..Len(smoothed_progression) :
                    /\ smoothed_progression[e].start = ctimes((k - 1) * segment_frames)
                    /\ smoothed_progression[e].chord = ChordName(SubSegmentLabel(k))
                    /\ smoothed_progression[e].duration =
                           SubSegmentDuration(k) + SubSegmentDuration(k + 1)

\* C17 as stated: for every time value and every beat sequence,
\* quantize_to_grid returns a value >= 0.
C17_ClampedAsStated ==
    q_pc \in {"once", "twice"} => q_once >= 0

\* C17, amended: for every time value and every beat sequence with at least
\* 2 beats, quantize_to_grid returns a value >= 0; with fewer than 2 beats
\* it returns the time unchanged, so a time >= 0 gives a value >= 0. The
\* monophonic tracker quantizes frame times only, which are >= 0, so every
\* quantized note start is non-negative.
C17_Clamped ==
    /\ (q_pc \in {"once", "twice"} /\ (Len(q_beats) >= 2 \/ q_time >= 0)) => q_once >= 0
    /\ (q_pc \in {"once", "twice"} /\ Len(q_beats) < 2) => q_once = q_time
    /\ \A k \in 1..Len(notes) : notes[k].start >= 0
    /\ \A k \in 1..Len(cleaned_notes) : cleaned_notes[k].start >= 0

\* The grid position nearest to the time is negative and the result is 0.
C17_Witness ==
    /\ q_pc = "once"
    /\ Len(q_beats) >= 2
    /\ quantize_to_grid_unclamped(q_time, q_beats) < 0
    /\ q_once = 0

\* No usable beat grid: no tempo analysis, a failed tempo detection, or
\* fewer than 2 detected beats.
DegenerateBeats ==
    \/ ~tempo_analysis
    \/ tempo_failed
    \/ (beats_detected /\ Len(beat_times) < 2)

\* C18: degenerate beat analysis is recovered locally. With fewer than 2
\* beats quantize_to_grid returns its input time unchanged; and when fewer
\* than 2 beats are available or tempo detection fails, the monophonic
\* tracker returns its notes with their unquantized start and duration.
C18_DegenerateBeats ==
    /\ (q_pc \in {"once", "twice"} /\ Len(q_beats) < 2) => q_once = q_time
    /\ (m_pc = "done" /\ DegenerateBeats) =>
           /\ notes = raw_notes
           /\ cleaned_notes = raw_notes

\* Quantization was requested, a single beat or none was detected, and the
\* tracker returned notes.
C18_Witness ==
    /\ m_pc = "done"
    /\ quantize /\ beats_detected /\ ~tempo_failed
    /\ Len(beat_times) < 2
    /\ Len(cleaned_notes) >= 1
    /\ cleaned_notes = raw_notes

\* C19: once stop() has cleared is_running, it returns after both workers
\* have left their loops; a worker leaves only at the test of the flag, so an
\* analysis in flight goes on to its end (the analysis, then the chord, then
\* the sleep); stop() has returned only when both workers have exited, and
\* from then on the results queue gets no new entry.
C19_CooperativeStop ==
    /\ (rt_main = "flag_cleared") ~>
           (rt_main = "returned" /\ rt_reader = "exited" /\ rt_proc = "exited")
    /\ [][/\ (rt_proc # "exited" /\ rt_proc' = "exited" => rt_proc = "test")
          /\ (rt_reader # "exited" /\ rt_reader' = "exited" => rt_reader = "test")
          /\ (rt_proc = "analyse" => rt_proc' \in {"analyse", "chord", "sleep"})
          /\ (rt_proc = "chord" => rt_proc' \in {"chord", "sleep"})]_vars
    /\ [](rt_main = "returned" => rt_reader = "exited" /\ rt_proc = "exited")
    /\ [][rt_main = "returned" => Len(result_queue') <= Len(result_queue)]_vars
    /\ [](~put_after_return)

\* stop() was called during an analysis, the analysis put its result after
\* the flag was cleared, and stop() has returned.
C19_Witness ==
    /\ rt_main = "returned"
    /\ stopped_in_flight
    /\ put_after_flag

\* C20: a writer called with a zero-length note or chord sequence completes
\* without raising an error.
C20_WritersAcceptEmpty ==
    (w_pc = "done" /\ w_notes = <<>>) => w_error = "none"

\* The pitch detected in the 0-based frame k.
PitchAt(k) == detected_pitches[k + 1]

\* The frame k goes on with a note whose first frame is a: it is voiced and
\* its pitch is within 1 semitone of the pitch of frame a.
Matches(k, a) == PitchAt(k) # None /\ Abs(PitchAt(k) - PitchAt(a)) <= 1

\* The last matching frame of the span whose first frame is a.
SpanEnd(a) ==
    CHOOSE b \in a..(n_frames - 1) :
        /\ \A k \in (a + 1)..b : Matches(k, a)
        /\ (b = n_frames - 1 \/ ~Matches(b + 1, a))

\* The first frames of the spans of the frame sequence from frame k on: a
\* span starts at the first voiced frame after the previous span.
RECURSIVE SpanStartsFrom(_)
SpanStartsFrom(k) ==
    IF k >= n_frames THEN {}
    ELSE IF PitchAt(k) = None THEN SpanStartsFrom(k + 1)
    ELSE {k} \cup SpanStartsFrom(SpanEnd(k) + 1)

SpanStarts == SpanStartsFrom(0)

\* The (pitch, confidence) pairs of the frames of the span that starts at a.
SpanPairs(a) ==
    [k \in 1..(SpanEnd(a) - a + 1) |-> <<PitchAt(a + k - 1), pitch_confidences[a + k]>>]

\* The confidence of the pairs whose pitch is at most p.
RECURSIVE ConfidenceUpTo(_, _)
ConfidenceUpTo(pairs, p) ==
    IF pairs = <<>> THEN 0
    ELSE (IF Head(pairs)[1] <= p THEN Head(pairs)[2] ELSE 0)
         + ConfidenceUpTo(Tail(pairs), p)

\* The smallest pitch of the pairs whose cumulative confidence, in pitch
\* order, reaches half the total confidence.
MedianPitch(pairs) ==
    LET ps == {pairs[k][1] : k \in 1..Len(pairs)}
        total == ConfidenceUpTo(pairs, 127)
    IN  CHOOSE p \in ps :
            /\ 2 * ConfidenceUpTo(pairs, p) >= total
            /\ \A q \in ps : q < p => 2 * ConfidenceUpTo(pairs, q) < total

\* The tracker has returned and no quantization was applied: every returned
\* note starts at the first frame of a span.
ReturnedUnquantized == m_pc = "done" /\ ~(quantize /\ beats_detected)

\* C21: the pitch of every returned note, closed in mid-sequence or at the
\* end of the frame sequence, is the confidence-weighted median of the
\* (pitch, confidence) pairs of its span.
C21_WeightedMedianOnClose ==
    ReturnedUnquantized =>
        \A n \in 1..Len(cleaned_notes) :
            cleaned_notes[n].pitch = MedianPitch(SpanPairs(cleaned_notes[n].start \div den))

\* C22: with quantization off, a returned note whose matching frames are
\* a..b and that was closed by frame b + 1 starts at time(a) and lasts
\* time(b + 1) - time(a).
C22_DurationToFollowingFrame ==
    ReturnedUnquantized =>
        \A n \in 1..Len(cleaned_notes) :
            LET a == cleaned_notes[n].start \div den
                b == SpanEnd(a)
            IN  b < n_frames - 1 =>
                    /\ cleaned_notes[n].start = times(a)
                    /\ cleaned_notes[n].duration = times(b + 1) - times(a)

\* C23: when the final frame of the signal is the only frame of its span,
\* a note is returned for it, and the note ends at the final timestamp.
C23_SingleFinalFrame ==
    (/\ ReturnedUnquantized
     /\ n_frames >= 1
     /\ (n_frames - 1) \in SpanStarts)
    => \E n \in 1..Len(cleaned_notes) :
           /\ cleaned_notes[n].start = times(n_frames - 1)
           /\ cleaned_notes[n].start + cleaned_notes[n].duration = times(n_frames - 1)

\* C24: in every step of the second pass the frame is accumulated into the
\* active note if and only if a note is active and the frame is voiced within
\* 1 semitone of the note's nominal pitch; any other frame closes the active
\* note, and a voiced one starts a new note at that frame. The nominal pitch
\* is the pitch of the note's first frame, and every returned note's pitch is
\* within 1 semitone of the pitch of its first frame.
C24_ContinuationRule ==
    /\ [][(m_pc = "run" /\ i' = i + 1) =>
            LET pitch == detected_pitches[i + 1]
                pair == <<pitch, pitch_confidences[i + 1]>>
                within == /\ current_note # None
                          /\ pitch # None
                          /\ Abs(pitch - current_note) <= 1
                accumulated == /\ note_confidences' = Append(note_confidences, pair)
                               /\ current_note' = current_note
                               /\ note_start' = note_start
                               /\ notes' = notes
            IN  /\ accumulated <=> within
                /\ (current_note # None /\ ~within) =>
                       /\ current_note' = pitch
                       /\ note_start' = (IF pitch # None THEN times(i) ELSE None)
                       /\ note_confidences' = (IF pitch # None THEN <<pair>> ELSE <<>>)
          ]_vars
    /\ [](current_note # None =>
             /\ note_start # None
             /\ current_note = PitchAt(note_start \div den))
    /\ [](ReturnedUnquantized =>
             \A n \in 1..Len(cleaned_notes) :
                 Abs(cleaned_notes[n].pitch - PitchAt(cleaned_notes[n].start \div den)) <= 1)

\* A returned note whose pitch is not the pitch of its first frame, in a run
\* where a voiced frame closed a note and started the next one.
C24_Witness ==
    /\ ReturnedUnquantized
    /\ \E n \in 1..Len(cleaned_notes) :
           cleaned_notes[n].pitch # PitchAt(cleaned_notes[n].start \div den)
    /\ \E a \in SpanStarts : a > 0 /\ PitchAt(a - 1) # None

\* The duration of the span that starts at a, as the tracker measures it:
\* from the first frame to the last matching frame, which for a span that
\* is open at the end of the sequence is the final frame.
SpanDuration(a) == times(SpanEnd(a)) - times(a)

Present(p, f) == p \in peaks_history[f + 1]

\* A maximal run of the pitch p starts at frame a.
RunStart(p, a) == Present(p, a) /\ (a = 0 \/ ~Present(p, a - 1))

\* The last frame of the run of p that starts at a, among the frames
\* processed so far.
RunEnd(p, a) ==
    CHOOSE b \in a..(Len(peaks_history) - 1) :
        /\ \A k \in a..b : Present(p, k)
        /\ (b = Len(peaks_history) - 1 \/ ~Present(p, b + 1))

\* The emitted notes of pitch p that start at frame a.
NotesOf(p, a) ==
    {k \in 1..Len(detected_notes) :
        detected_notes[k].pitch = p /\ detected_notes[k].start = ptimes(a)}

\* C26: at any moment, for each pitch and each maximal run a..b of frames
\* with the pitch among the kept peaks, followed by a processed frame b + 1
\* without it, exactly one note is emitted, with start time(a) and duration
\* time(b + 1) - time(a), if that duration is at least min_duration, and none
\* otherwise; every emitted note of a pitch starts at the start of a run of
\* the pitch, and before the close at the end of the sequence it is the note
\* of a run that a following frame closed.
C26_PerPitchStateMachine ==
    LET last == Len(peaks_history) - 1
    IN  /\ \A p \in Pitches(midi_pitches) : \A a \in 0..last :
               (RunStart(p, a) /\ RunEnd(p, a) < last) =>
                   LET duration == ptimes(RunEnd(p, a) + 1) - ptimes(a)
                   IN  IF duration >= min_duration
                       THEN /\ Cardinality(NotesOf(p, a)) = 1
                            /\ \A k \in NotesOf(p, a) :
                                   detected_notes[k].duration = duration
                       ELSE NotesOf(p, a) = {}
        /\ \A k \in 1..Len(detected_notes) :
               LET p == detected_notes[k].pitch
                   a == detected_notes[k].start
               IN  /\ a \in 0..last
                   /\ RunStart(p, a)
                   /\ (RunEnd(p, a) < last \/ p_pc = "done")

\* Two pitches start together; a frame closes the run of one of them, which
\* is too short for a note, and a later frame closes the run of the other,
\* which yields a note.
C26_Witness ==
    /\ p_pc = "done"
    /\ min_duration = 2
    /\ Len(peaks_history) >= 3
    /\ \E p, q \in Pitches(midi_pitches) :
           /\ p # q
           /\ RunStart(p, 0) /\ RunEnd(p, 0) = 0 /\ NotesOf(p, 0) = {}
           /\ RunStart(q, 0) /\ RunEnd(q, 0) = 1 /\ Cardinality(NotesOf(q, 0)) = 1

\* The runs <<p, a>> of the frame sequence: pitch p, first frame a.
Runs ==
    {r \in Pitches(midi_pitches) \X (0..(Len(peaks_history) - 1)) : RunStart(r[1], r[2])}

\* The runs that reach the last frame.
EndRuns == {r \in Runs : RunEnd(r[1], r[2]) = Len(peaks_history) - 1}

\* The duration a run closes with: against the frame that follows it, or
\* against the final frame time for a run that reaches the last frame.
RunDuration(r) ==
    IF r \in EndRuns THEN ptimes(Len(peaks_history) - 1) - ptimes(r[2])
    ELSE ptimes(RunEnd(r[1], r[2]) + 1) - ptimes(r[2])

\* C27: when the tracker has returned, every pitch still active after the
\* last frame has yielded exactly one note with duration time(last frame) -
\* start if that duration is at least min_duration, and none otherwise; the
\* spans left in active_notes are those runs, and the returned notes are, one
\* for one, the runs whose duration is at least min_duration.
C27_EndOfSequenceClose ==
    p_pc = "done" =>
        /\ \A r \in EndRuns :
               IF RunDuration(r) >= min_duration
               THEN /\ Cardinality(NotesOf(r[1], r[2])) = 1
                    /\ \A k \in NotesOf(r[1], r[2]) :
                           /\ detected_notes[k].duration = RunDuration(r)
                           /\ NoteEnd(detected_notes[k]) = ptimes(p_n_frames - 1)
               ELSE NotesOf(r[1], r[2]) = {}
        /\ \A p \in DOMAIN active_notes :
               active_notes[p].start # None =>
                   \E r \in EndRuns : r[1] = p /\ ptimes(r[2]) = active_notes[p].start
        /\ Len(detected_notes) =
               Cardinality({r \in Runs : RunDuration(r) >= min_duration})

\* Two pitches are active in the last frame: one since the first frame,
\* returned as a note; one since the last frame only, too short for a note.
C27_Witness ==
    /\ p_pc = "done"
    /\ p_n_frames >= 3
    /\ \E r, q \in EndRuns :
           /\ r[2] = 0
           /\ Cardinality(NotesOf(r[1], r[2])) = 1
           /\ q[2] = p_n_frames - 1
           /\ NotesOf(q[1], q[2]) = {}

\* Two emitted notes overlap in time.
Overlap(m, n) == m.start < NoteEnd(n) /\ n.start < NoteEnd(m)

\* C28: any two pitches among the kept peaks of one frame differ by at
\* least 3 semitones, and any two emitted notes that overlap in time have
\* pitches at least 3 semitones apart.
C28_PeakSeparation ==
    /\ \A f \in 1..Len(peaks_history) : \A p, q \in peaks_history[f] :
           p # q => Abs(p - q) >= peak_distance
    /\ \A j, k \in 1..Len(detected_notes) :
           (j # k /\ Overlap(detected_notes[j], detected_notes[k]))
           => Abs(detected_notes[j].pitch - detected_notes[k].pitch) >= peak_distance

\* Two returned notes that overlap, exactly 3 semitones apart.
C28_Witness ==
    /\ p_pc = "done"
    /\ \E j, k \in 1..Len(detected_notes) :
           /\ Overlap(detected_notes[j], detected_notes[k])
           /\ detected_notes[j].pitch - detected_notes[k].pitch = peak_distance

\* The profile with pitch class k carrying the tonic weight:
\* chroma[(k + i) mod 12] = profile[i].
KeyProfile(profile, k) == [pc \in PitchClasses |-> profile[(pc - k + 12) % 12]]

\* C29: for each tonic k and each mode, when the chroma vector is the
\* profile of the mode with pitch class k carrying the tonic weight,
\* detect_key_krumhansl returns the note name of pitch class k and the mode.
C29_TonicOfEveryKey ==
    k_pc = "done" =>
        \A k \in PitchClasses :
            /\ chroma_vector = KeyProfile(MAJOR_PROFILE, k) =>
                   (best_match.key = NOTE_NAMES[k + 1] /\ best_match.mode = "major")
            /\ chroma_vector = KeyProfile(MINOR_PROFILE, k) =>
                   (best_match.key = NOTE_NAMES[k + 1] /\ best_match.mode = "minor")

\* detect_chord has returned for the template t at root r.
ReturnedFor(t, r) ==
    /\ d_pc = "returned"
    /\ \E v \in 1..MaxChromaLevel : chroma_frame = Transposed(t, r, v)

\* C30 as stated: for each root r and each of the seven chord types, on the
\* template of the type transposed to r, detect_chord returns root r and the
\* type, with similarity 1.
C30_RootOfEveryTemplateAsStated ==
    \A t \in 1..Len(CHORD_TEMPLATES) : \A r \in PitchClasses :
        ReturnedFor(t, r) =>
            /\ chord_match.root = NOTE_NAMES[r + 1]
            /\ chord_match.chord_type = CHORD_TEMPLATES[t].chord_type
            /\ SimIsOne(chord_match.confidence)

\* C30: for each root r and each of the seven chord types, on the template
\* of the type transposed to r, detect_chord returns the type with
\* similarity 1, and root r for every type but augmented; the augmented
\* triads on r, r + 4 and r + 8 are the same three pitch classes, and the
\* root returned is the lowest of them, r mod 4.
C30_RootOfEveryTemplate ==
    \A t \in 1..Len(CHORD_TEMPLATES) : \A r \in PitchClasses :
        ReturnedFor(t, r) =>
            /\ chord_match.root =
                   NOTE_NAMES[(IF CHORD_TEMPLATES[t].chord_type = "augmented"
                               THEN r % 4 ELSE r) + 1]
            /\ chord_match.chord_type = CHORD_TEMPLATES[t].chord_type
            /\ SimIsOne(chord_match.confidence)

\* The augmented triad on E is returned as C augmented, and the call has
\* returned.
C30_Witness ==
    /\ ReturnedFor(4, 4)
    /\ chord_match.root = "C"
    /\ chord_match.chord_type = "augmented"

\* The windows whose name is the name of the global key.
AgreeingWindows ==
    {k \in DOMAIN windowed_keys : windowed_keys[k] = KeyName(global_key)}

\* C31: the consistency returned by detect_key_signature is the fraction of
\* the windows whose "tonic mode" name is the name of the global key, and it
\* lies in [0, 1].
C31_ConsistencyAgainstGlobal ==
    sig_pc = "done" =>
        /\ 0 <= consistency.num /\ consistency.num <= consistency.den
        /\ windowed_keys # <<>> =>
               consistency.num * Len(windowed_keys)
                   = Cardinality(AgreeingWindows) * consistency.den

\* Entry j of chord_progression starts a run: it is the first entry, or the
\* entry before it carries another chord name.
StartsRun(j) ==
    /\ j \in 1..Len(chord_progression)
    /\ j = 1 \/ chord_progression[j - 1].name # chord_progression[j].name

\* The entries of the run that starts at entry j.
RunOf(j) ==
    {k \in j..Len(chord_progression) :
        \A l \in j..k : chord_progression[l].name = chord_progression[j].name}

\* C32: chord merging is maximal and keeps the first confidence. In the
\* output of detect_chord_progression no two consecutive segments carry the
\* same chord, there is one segment per run of equally named entries, and
\* each segment carries the start, the name and the confidence of the first
\* entry of its run.
C32_MaximalMergeFirstConfidence ==
    c_pc = "done" =>
        /\ \A e \in 1..(Len(smoothed_progression) - 1) :
               smoothed_progression[e].chord # smoothed_progression[e + 1].chord
        /\ Len(smoothed_progression)
               = Cardinality({j \in 1..Len(chord_progression) : StartsRun(j)})
        /\ \A e \in 1..Len(smoothed_progression) :
               \E j \in 1..Len(chord_progression) :
                   /\ StartsRun(j)
                   /\ smoothed_progression[e].start = chord_progression[j].time
                   /\ smoothed_progression[e].chord = chord_progression[j].name
                   /\ smoothed_progression[e].confidence = chord_progression[j].confidence

\* A run of two entries with different confidences was merged into one
\* segment, next to a segment of another chord.
C32_Witness ==
    /\ c_pc = "done"
    /\ Len(smoothed_progression) >= 2
    /\ \E j \in 1..Len(chord_progression) :
         /\ StartsRun(j)
         /\ j + 1 \in RunOf(j)
         /\ chord_progression[j + 1].confidence # chord_progression[j].confidence
         /\ \E e \in 1..Len(smoothed_progression) :
              /\ smoothed_progression[e].start = chord_progression[j].time
              /\ smoothed_progression[e].confidence = chord_progression[j].confidence

\* Sub-segment k (1-based) starts inside the span of segment e.
CoveredBy(k, e) ==
    /\ smoothed_progression[e].start <= ctimes((k - 1) * segment_frames)
    /\ ctimes((k - 1) * segment_frames)
           < smoothed_progression[e].start + smoothed_progression[e].duration

\* C33: unlabeled spans stay uncovered. The span [start, start + duration)
\* of every segment returned by detect_chord_progression contains only
\* sub-segments whose accepted chord is the chord of the segment; a
\* sub-segment without an accepted chord lies in no segment.
C33_UnlabeledUncovered ==
    c_pc = "done" =>
        \A e \in 1..Len(smoothed_progression) : \A k \in 1..SubSegments :
            CoveredBy(k, e) =>
                /\ SubSegmentLabel(k) # NoChord
                /\ ChordName(SubSegmentLabel(k)) = smoothed_progression[e].chord

\* C34: the segments returned by detect_chord_progression have strictly
\* increasing start times and never overlap (the start plus the duration of
\* a segment is at most the start of the next), and every duration is
\* non-negative.
C34_SegmentsOrdered ==
    c_pc = "done" =>
        /\ \A e \in 1..(Len(smoothed_progression) - 1) :
               /\ smoothed_progression[e].start < smoothed_progression[e + 1].start
               /\ smoothed_progression[e].start + smoothed_progression[e].duration
                      <= smoothed_progression[e + 1].start
        /\ \A e \in 1..Len(smoothed_progression) :
               smoothed_progression[e].duration >= 0

\* Three segments were returned, the last of them starting on the last
\* frame.
C34_Witness ==
    /\ c_pc = "done"
    /\ Len(smoothed_progression) >= 3
    /\ Last(smoothed_progression).start = ctimes(c_n_frames - 1)

\* The segments whose root pitch class is at offset 0, 2, 4, 5, 7, 9 or 11
\* from the tonic.
DiatonicSegments ==
    {k \in 1..Len(h_progression) :
        (NoteIndex(RootOf(h_progression[k].chord)) - NoteIndex(h_key) + 12) % 12
            \in {0, 2, 4, 5, 7, 9, 11}}

\* C35: the tonal stability computed by analyze_harmonic_structure is the
\* number of segments whose root pitch class, sharp roots included, is at
\* offset 0, 2, 4, 5, 7, 9 or 11 from the tonic, divided by the number of
\* segments, and 0 when there is no segment.
C35_TonalStability ==
    h_pc = "done" =>
        IF h_progression = <<>> THEN tonal_stability.num = 0
        ELSE tonal_stability.num * Len(h_progression)
                 = Cardinality(DiatonicSegments) * tonal_stability.den

\* s is a run of consecutive samples of the captured stream.
ContiguousRun(s) ==
    /\ \A k \in 1..Len(s) : s[k] \in 1..captured
    /\ \A k \in 1..(Len(s) - 1) : s[k + 1] = s[k] + 1

\* C36: whatever the interleaving of the reader worker and the processing
\* worker, every snapshot the processing worker analyses is a contiguous run
\* of the captured samples in capture order, of at most buffer_size samples.
C36_SnapshotsContiguous ==
    proc_pc \in {"mode", "chord"} =>
        /\ ContiguousRun(buffer_array)
        /\ Len(buffer_array) <= buffer_size

\* A snapshot is being analysed after the buffer has dropped old samples, it
\* starts inside a chunk, and the reader has extended the buffer since the
\* copy.
C36_Witness ==
    /\ proc_pc = "chord"
    /\ Len(buffer_array) = buffer_size
    /\ buffer_array[1] > 1
    /\ buffer_array[1] % chunk_size # 1
    /\ buffer_samples # buffer_array

\* The step answers the request of slot s.
Answers(s) == requests[s].pc # "done" /\ requests'[s].pc = "done"

\* C37: over any sequence of start, stop and results requests at most one
\* live transcriber exists and it is the registered one; a start request
\* with a session registered answers already_running (400) and creates and
\* starts nothing; a stop or results request without a session answers
\* not_running (400) and changes nothing; a stop request with a session
\* stops and unregisters it; and a start request without a session, also
\* after a stop, creates, registers and starts one transcriber and answers
\* started.
C37_SessionLifecycle ==
    /\ [](Cardinality(live) <= 1 /\ live \subseteq {app_transcriber})
    /\ [][\A s \in Slots :
            Answers(s) =>
                LET r == requests[s]
                    answer == requests'[s]
                IN  /\ r.kind = "start" /\ r.before.transcriber # 0 =>
                           /\ answer.response = "already_running" /\ answer.code = 400
                           /\ SessionState' = r.before
                    /\ r.kind \in {"stop", "results"} /\ r.before.transcriber = 0 =>
                           /\ answer.response = "not_running" /\ answer.code = 400
                           /\ SessionState' = r.before
                    /\ r.kind = "stop" /\ r.before.transcriber # 0 =>
                           /\ answer.response = "stopped"
                           /\ app_transcriber' = 0
                           /\ live' = {}
                           /\ created' = r.before.created
                    /\ r.kind = "start" /\ r.before.transcriber = 0 =>
                           /\ answer.response = "started"
                           /\ created' = r.before.created + 1
                           /\ app_transcriber' = created'
                           /\ live' = {created'}]_vars

\* A start request has been answered started after an earlier session was
\* stopped, and a second start request was refused afterwards.
C37_Witness ==
    /\ created = 2
    /\ app_transcriber = 2
    /\ live = {2}
    /\ \E s, t \in Slots :
         /\ requests[s].pc = "done" /\ requests[s].response = "started"
         /\ requests[s].before.created = 1 /\ requests[s].before.transcriber = 0
         /\ requests[t].pc = "done" /\ requests[t].response = "already_running"

\* Two start requests whose checks were interleaved with their creations
\* have both been answered.
RacedStarts(s, t) ==
    /\ s # t
    /\ {s, t} \subseteq raced
    /\ requests[s].pc = "done" /\ requests[t].pc = "done"

\* C38: when two start requests are handled concurrently, their checks and
\* creations interleaved, at most one transcriber is created and started and
\* exactly one of the requests answers started.
C38_ConcurrentStarts ==
    \A s, t \in Slots :
        RacedStarts(s, t) =>
            /\ requests[s].made = 0 \/ requests[t].made = 0
            /\ (requests[s].response = "started") # (requests[t].response = "started")

\* The positions in event_queue of the note messages for note n.
NoteMessagesOf(n) ==
    {k \in 1..Len(event_queue) :
        (IsNoteOn(event_queue[k]) \/ IsNoteOff(event_queue[k])) /\ event_queue[k].note = n}

\* The most recent note message for note n was a note_on with velocity > 0.
LastWasNoteOn(n) ==
    /\ NoteMessagesOf(n) # {}
    /\ IsNoteOn(event_queue[CHOOSE k \in NoteMessagesOf(n) :
                               \A j \in NoteMessagesOf(n) : j <= k])

\* The step processes a note-off message (note_off, or note_on with velocity
\* 0) for a note that is, or is not, active.
ProcessesNoteOff(was_active) ==
    /\ Len(event_queue') = Len(event_queue) + 1
    /\ IsNoteOff(Last(event_queue'))
    /\ (Last(event_queue').note \in DOMAIN pressed_notes) = was_active

\* The active notes are the notes whose most recent note message was a
\* note_on with velocity > 0, and a note-off message removes its note.
ActiveNotesTracked ==
    /\ [](get_active_notes = {n \in {60, 64} : LastWasNoteOn(n)})
    /\ [][ProcessesNoteOff(TRUE) =>
            /\ DOMAIN pressed_notes' = DOMAIN pressed_notes \ {Last(event_queue').note}
            /\ note_off_calls' = note_off_calls + 1]_vars

\* C39 as stated: after any sequence of messages get_active_notes() returns
\* the notes whose most recent note message was a note_on with velocity > 0,
\* a note-off message removes its note, and a note-off message for a note
\* that is not active changes no state and invokes no note-off callback.
C39_ActiveNotesAsStated ==
    /\ ActiveNotesTracked
    /\ [][ProcessesNoteOff(FALSE) => UNCHANGED mc_vars]_vars

\* C39: after any sequence of messages get_active_notes() returns the notes
\* whose most recent note message was a note_on with velocity > 0, a note-off
\* message removes its note, and a note-off message for a note that is not
\* active invokes no callback and changes nothing but the event queue, to
\* which it is appended, and the recording, when one is running.
C39_ActiveNotes ==
    /\ ActiveNotesTracked
    /\ [][ProcessesNoteOff(FALSE) =>
            /\ UNCHANGED <<pressed_notes, control_values, pitch_bend, current_program,
                           note_on_calls, note_off_calls, is_recording>>
            /\ event_queue' = Append(event_queue, Last(event_queue'))
            /\ recorded_events' =
                  IF is_recording THEN Append(recorded_events, Last(event_queue'))
                  ELSE recorded_events]_vars

\* Note 60 was pressed and released by a note_on with velocity 0, and a
\* note_off for it arrived after the release: no note is active and the
\* note-off callback was called once.
C39_Witness ==
    /\ get_active_notes = {}
    /\ \E j, k, l \in 1..Len(event_queue) :
         /\ j < k /\ k < l
         /\ IsNoteOn(event_queue[j]) /\ event_queue[j].note = 60
         /\ event_queue[k].type = "note_on" /\ event_queue[k].velocity = 0
         /\ event_queue[k].note = 60
         /\ event_queue[l].type = "note_off" /\ event_queue[l].note = 60
    /\ note_off_calls = 1

=============================================================================
